---- MODULE Spec2Model ----
(***************************************************************************)
(* DoiHive: the concurrent PDF retrieval pipeline of core/hive.go.         *)
(*                                                                         *)
(* DownloadPDFs starts W worker goroutines, a producer goroutine that      *)
(* enqueues one job per URL, a waiter goroutine that closes the result     *)
(* channel once every worker has left, and collects the results into the   *)
(* statistics.  downloadSinglePDF is the per-job pipeline: skip check,     *)
(* page request with retries, link extraction, payload request with        *)
(* retries, temporary file, validation, rename.                            *)
(*                                                                         *)
(* Strings are sequences of one-character strings, so that the string      *)
(* functions of the code (TrimPrefix, ReplaceAll, Contains, HasPrefix)     *)
(* are computed and not assumed.                                           *)
(***************************************************************************)
EXTENDS Integers, Sequences, FiniteSets, TLC

\* ------------------------------------------------------------ bounds
MaxJobs == 2
MaxWorkers == 2
MaxRuns == 2
MaxTags == 3
MaxRounds == 2
MaxDois == 3

\* ------------------------------------------------------------ program constants
\* const maxRetries = 3
maxRetries == 3
\* The clock counts milliseconds.
\* delay := time.Duration(500+rand.Intn(1500)) * time.Millisecond
PaceMin == 500
PaceSpan == 1500
\* delay = time.Duration(300+rand.Intn(700)) * time.Millisecond
PdfPaceMin == 300
PdfPaceSpan == 700
\* retryDelay := 2 * time.Second
retryDelay == 2000
\* time.Duration(rand.Intn(2000))*time.Millisecond
BackoffSpan == 2000
\* http.StatusOK, http.StatusForbidden, http.StatusNotFound; a response is a
\* status or the transport error "err" of client.Do
StatusOK == "200"
StatusForbidden == "403"
StatusNotFound == "404"
TransportErr == "err"

\* ------------------------------------------------------------ strings
RECURSIVE ReplaceAll(_, _, _)
\* strings.ReplaceAll(s, old, new) for a one-character old
ReplaceAll(s, old, new) ==
    IF s = <<>> THEN <<>>
    ELSE <<IF Head(s) = old THEN new ELSE Head(s)>> \o ReplaceAll(Tail(s), old, new)

\* strings.TrimPrefix(s, p) for a one-character p
TrimPrefix(s, p) == IF s # <<>> /\ Head(s) = p THEN Tail(s) ELSE s

\* index of the first character of s that is in cs, or Len(s) + 1
FirstOf(s, cs) ==
    IF \E i \in 1..Len(s) : s[i] \in cs
    THEN CHOOSE i \in 1..Len(s) : s[i] \in cs /\ \A k \in 1..(i - 1) : s[k] \notin cs
    ELSE Len(s) + 1

\* The target URLs are "https://sci-hub.se" followed by the sequences below
\* (cmd/main.go builds them as sciHubURL + "/" + doi).
UrlXY == <<"/", "x", "/", "y">>
UrlXcY == <<"/", "x", ":", "y">>
UrlZ == <<"/", "z">>
UrlBad == <<"/", "%">>
URLS == {UrlXY, UrlXcY, UrlZ, UrlBad}

\* url.Parse fails on an invalid percent escape (no URL here holds hex digits)
ParseErr(u) == \E i \in 1..Len(u) : u[i] = "%"

\* url.Parse(u).Path: the part before the query and the fragment
UrlPath(u) == SubSeq(u, 1, FirstOf(u, {"?", "#"}) - 1)

\* doi := strings.TrimPrefix(parsedURL.Path, "/")
DoiOf(u) == TrimPrefix(UrlPath(u), "/")

\* a sanitizing that forgets the colon
SafeFilenameSlashOnly(doi) == ReplaceAll(doi, "/", "_")

\* safeFilename, pdfFilename
SafeFilename(doi) == ReplaceAll(ReplaceAll(doi, "/", "_"), ":", "_")
PdfFilename(doi) == SafeFilename(doi) \o <<".pdf">>

\* ------------------------------------------------------------ URLs of the markup
\* A URL string is a sequence of tokens; the tokens "/download/", ".pdf" and
\* ".PDF" stand for those substrings, "%" for an invalid percent escape.
Contains(s, tok) == \E i \in 1..Len(s) : s[i] = tok

\* strings.ToLower
ToLower(s) ==
    [i \in 1..Len(s) |->
        CASE s[i] = ".PDF" -> ".pdf"
          [] s[i] = "/Download/" -> "/download/"
          [] s[i] = "HTTP:" -> "http:"
          [] s[i] = "PDF" -> "pdf"
          [] s[i] = "Captcha" -> "captcha"
          [] s[i] = "<HTML" -> "<html"
          [] s[i] = "Article Is Not Available" -> "article is not available"
          [] s[i] = "Not Found" -> "not found"
          [] OTHER -> s[i]]

\* base, err := url.Parse(baseURL): the page URL
BaseOf(u) == <<"https:", "//", "sci-hub.se">> \o u

\* strings.HasPrefix(ref, "http://") || strings.HasPrefix(ref, "https://")
IsAbsolute(ref) == Len(ref) >= 2 /\ ref[1] \in {"http:", "https:"} /\ ref[2] = "//"

\* data[:strings.Index(data, "#")]
StripFragment(s) == SubSeq(s, 1, FirstOf(s, {"#"}) - 1)

\* the directory of a path: everything up to and including its last slash
RECURSIVE DirOf(_)
DirOf(p) ==
    IF p = <<>> THEN <<"/">>
    ELSE IF p[Len(p)] \in {"/", "/download/", "/Download/"} THEN p
    ELSE DirOf(SubSeq(p, 1, Len(p) - 1))

\* base.ResolveReference(refURL).String() for a reference that parses
ResolveReference(u, ref) ==
    CASE ref[1] \in {"HTTP:", "ftp:"} -> ToLower(<<ref[1]>>) \o Tail(ref)
      [] ref[1] = "//" -> <<"https:">> \o ref
      [] ref[1] \in {"/", "/download/", "/Download/"} -> <<"https:", "//", "sci-hub.se">> \o ref
      [] ref[1] = "#" -> <<"https:", "//", "sci-hub.se">> \o UrlPath(u) \o ref
      [] OTHER -> <<"https:", "//", "sci-hub.se">> \o DirOf(UrlPath(u)) \o ref

\* resolveURL(base, ref); the empty sequence is the empty string
resolveURL(u, ref) ==
    IF ref = <<>> THEN <<>>
    ELSE IF IsAbsolute(ref) THEN ref
    ELSE IF ParseErr(ref) THEN <<>>
    ELSE ResolveReference(u, ref)

\* ------------------------------------------------------------ markup
\* The raw markup is a sequence of tags in document order.  cls is the list of
\* class names of a div, typ the type attribute of an object, ref the href,
\* data or src attribute, txt the text of a title or text node; hid marks a
\* tag that lies inside an HTML comment: the raw markup holds it, the parsed
\* document does not.
Tag(t, cls, typ, ref, txt, hid) ==
    [t |-> t, cls |-> cls, typ |-> typ, ref |-> ref, txt |-> txt, hid |-> hid]
Div(cls) == Tag("div", cls, "", <<>>, <<>>, FALSE)
EndDiv == Tag("/div", <<>>, "", <<>>, <<>>, FALSE)
Anchor(ref) == Tag("a", <<>>, "", ref, <<>>, FALSE)
Object(typ, ref) == Tag("object", <<>>, typ, ref, <<>>, FALSE)
Iframe(ref) == Tag("iframe", <<>>, "", ref, <<>>, FALSE)
Title(txt) == Tag("title", <<>>, "", <<>>, txt, FALSE)
Text(txt) == Tag("text", <<>>, "", <<>>, txt, FALSE)
Hidden(tag) == [tag EXCEPT !.hid = TRUE]

MinOf(S) == CHOOSE i \in S : \A k \in S : i <= k
MaxOf(S) == CHOOSE i \in S : \A k \in S : i >= k

\* the classes of the divs that are open after the first i tags of the document
RECURSIVE OpenDivs(_, _)
OpenDivs(m, i) ==
    IF i = 0 THEN <<>>
    ELSE LET st == OpenDivs(m, i - 1) IN
         CASE m[i].hid -> st
           [] m[i].t = "div" -> Append(st, m[i].cls)
           [] m[i].t = "/div" -> IF st = <<>> THEN st ELSE SubSeq(st, 1, Len(st) - 1)
           [] OTHER -> st

\* the selector "div.download a": tag i lies inside a div that has the class
InDownload(m, i) ==
    LET st == OpenDivs(m, i - 1) IN
    \E k \in 1..Len(st) : \E c \in 1..Len(st[k]) : st[k][c] = "download"

\* the tags of the parsed document that a selector matches
Sel(m, t) == {i \in 1..Len(m) : m[i].t = t /\ ~m[i].hid}

\* strategy 1, hive.go 481-502
Strategy1(m, u) ==
    LET hits == {i \in Sel(m, "a") : InDownload(m, i) /\ resolveURL(u, m[i].ref) # <<>>}
        dl == {i \in hits : Contains(resolveURL(u, m[i].ref), "/download/")}
        rest == hits \ dl
    IN  IF dl # {} THEN resolveURL(u, m[MaxOf(dl)].ref)
        ELSE IF rest # {} THEN resolveURL(u, m[MinOf(rest)].ref)
        ELSE <<>>

\* strategies 2 and 3: the first object of the set whose data resolves
FirstObject(m, u, objs) ==
    LET hits == {i \in objs : resolveURL(u, StripFragment(m[i].ref)) # <<>>}
    IN  IF hits # {} THEN resolveURL(u, StripFragment(m[MinOf(hits)].ref)) ELSE <<>>

\* strategy 2, hive.go 504-522
Strategy2(m, u) == FirstObject(m, u, {i \in Sel(m, "object") : m[i].typ = "application/pdf"})

\* strategy 3, hive.go 524-542: object[data]
Strategy3(m, u) == FirstObject(m, u, {i \in Sel(m, "object") : m[i].ref # <<>>})

\* strategy 4, hive.go 544-561
Strategy4(m, u) ==
    LET hits == {i \in Sel(m, "iframe") :
                    LET r == resolveURL(u, m[i].ref) IN
                    r # <<>> /\ (Contains(ToLower(r), ".pdf") \/ Contains(r, "/download/"))}
    IN  IF hits # {} THEN resolveURL(u, m[MinOf(hits)].ref) ELSE <<>>

\* downloadPattern, hive.go 565: the first div whose class attribute is exactly
\* "download", then lazily the first <a ... href="..."> with a non-empty href
DownloadPattern(m) ==
    LET divs == {i \in 1..Len(m) : m[i].t = "div" /\ m[i].cls = <<"download">>}
        as == IF divs = {} THEN {}
              ELSE {j \in 1..Len(m) : j > MinOf(divs) /\ m[j].t = "a" /\ m[j].ref # <<>>}
    IN  IF as # {} THEN m[MinOf(as)].ref ELSE <<>>

\* objectPattern, hive.go 573
ObjectPattern(m) ==
    LET objs == {i \in 1..Len(m) : m[i].t = "object" /\ m[i].ref # <<>>}
    IN  IF objs # {} THEN m[MinOf(objs)].ref ELSE <<>>

\* strategy 5, hive.go 563-582: the raw markup
Strategy5(m, u) ==
    IF resolveURL(u, DownloadPattern(m)) # <<>> THEN resolveURL(u, DownloadPattern(m))
    ELSE resolveURL(u, StripFragment(ObjectPattern(m)))

\* strategy 6, hive.go 584-601
Strategy6(m, u) ==
    LET hits == {i \in Sel(m, "a") :
                    /\ Contains(ToLower(m[i].ref), "/download/") \/ Contains(ToLower(m[i].ref), ".pdf")
                    /\ resolveURL(u, m[i].ref) # <<>>}
    IN  IF hits # {} THEN resolveURL(u, m[MinOf(hits)].ref) ELSE <<>>

\* extractPDFURL(doc, htmlContent, baseURL)
extractPDFURL(m, u) ==
    IF ParseErr(u) THEN <<>>
    ELSE IF Strategy1(m, u) # <<>> THEN Strategy1(m, u)
    ELSE IF Strategy2(m, u) # <<>> THEN Strategy2(m, u)
    ELSE IF Strategy3(m, u) # <<>> THEN Strategy3(m, u)
    ELSE IF Strategy4(m, u) # <<>> THEN Strategy4(m, u)
    ELSE IF Strategy5(m, u) # <<>> THEN Strategy5(m, u)
    ELSE Strategy6(m, u)

\* ------------------------------------------------------------ failure reasons
\* doc.Find("title").Text(): the text of the title elements of the document
RECURSIVE TitleFrom(_, _)
TitleFrom(m, i) ==
    IF i > Len(m) THEN <<>>
    ELSE (IF m[i].t = "title" /\ ~m[i].hid THEN m[i].txt ELSE <<>>) \o TitleFrom(m, i + 1)
TitleOf(m) == TitleFrom(m, 1)

\* strings.Contains(strings.ToLower(htmlStr), marker): the raw markup, with
\* the text of every tag, hidden or not
HtmlContains(m, marker) == \E i \in 1..Len(m) : Contains(ToLower(m[i].txt), marker)

\* len(title) > 50
TitleLimit == 50

\* A Go string is a sequence of bytes in UTF-8: the character U+6587 takes three
\* bytes, every other character of the titles here one.
Width(c) == IF c = "U+6587" THEN 3 ELSE 1

\* len(s): the number of bytes
RECURSIVE ByteLen(_)
ByteLen(s) == IF s = <<>> THEN 0 ELSE Width(Head(s)) + ByteLen(Tail(s))

\* s[:n]: the first n bytes; "broken" is what is left of a character that the
\* cut goes through
RECURSIVE ByteCut(_, _)
ByteCut(s, n) ==
    IF s = <<>> \/ n = 0 THEN <<>>
    ELSE IF Width(Head(s)) <= n THEN <<Head(s)>> \o ByteCut(Tail(s), n - Width(Head(s)))
    ELSE <<"broken">>

\* errorMsg of a failed extraction, hive.go 303-322
ExtractError(m) ==
    LET title == TitleOf(m) IN
    IF \/ Contains(ToLower(title), "article is not available")
       \/ HtmlContains(m, "article is not available")
       \/ HtmlContains(m, "not available through sci-hub")
    THEN <<"article not available on Sci-Hub">>
    ELSE IF HtmlContains(m, "captcha") THEN <<"no PDF URL", "(captcha)">>
    ELSE IF HtmlContains(m, "not found") \/ HtmlContains(m, "404")
    THEN <<"no PDF URL", "(page not found)">>
    ELSE IF title # <<>>
    THEN <<"no PDF URL", "(title:">> \o
         (IF ByteLen(title) > TitleLimit THEN ByteCut(title, TitleLimit) \o <<"...">> ELSE title)
    ELSE <<"no PDF URL">>

\* ------------------------------------------------------------ payloads
\* A body is a sequence of bytes; "1f" and "8b" are the gzip magic bytes, and
\* a gzip stream is modelled as the magic followed by the bytes it holds.
PdfMagic == <<"%", "P", "D", "F">>
GzipMagic == <<"1f", "8b">>
HeaderLen == 4

\* gzip.NewReader fails unless the stream begins with the magic
GzipErr(body) == Len(body) < 2 \/ SubSeq(body, 1, 2) # GzipMagic
Gunzip(body) == SubSeq(body, 3, Len(body))

\* the bytes io.Copy reads from pdfReader
Decoded(resp) == IF resp.enc = "gzip" THEN Gunzip(resp.body) ELSE resp.body

\* header := make([]byte, 4); file.Read(header)
HeaderOf(content) == SubSeq(content, 1, IF Len(content) < HeaderLen THEN Len(content) ELSE HeaderLen)

\* a header test that accepts every file, and one with the comparison inverted
IsPDFAny(content) == TRUE
IsPDFInverted(content) == HeaderOf(content) # PdfMagic

\* string(header) != "%PDF" does not hold
IsPDF(content) == HeaderOf(content) = PdfMagic

\* the Content-Type test, hive.go 386-391
ContentTypeRejected(ct) ==
    /\ ct # <<>>
    /\ ~Contains(ToLower(ct), "pdf")
    /\ ~Contains(ToLower(ct), "application/octet-stream")
    /\ Contains(ToLower(ct), "html") \/ Contains(ToLower(ct), "text")

\* errorMsg of a file that is not a PDF, hive.go 443-457
NotPdfError(content) ==
    LET c == ToLower(content) IN
    IF Contains(c, "<html") \/ Contains(c, "<!doctype")
    THEN IF Contains(c, "403") \/ Contains(c, "forbidden") THEN <<"not a PDF", "(HTML 403 page)">>
         ELSE IF Contains(c, "404") \/ Contains(c, "not found") THEN <<"not a PDF", "(HTML 404 page)">>
         ELSE IF Contains(c, "captcha") THEN <<"not a PDF", "(captcha page)">>
         ELSE <<"not a PDF", "(HTML error page)">>
    ELSE IF Len(content) >= 2 /\ SubSeq(content, 1, 2) = GzipMagic
    THEN <<"not a PDF", "(gzip)">>
    ELSE <<"not a PDF">>

\* ------------------------------------------------------------ the mirror
\* What the mirror may answer.  A page answer is a status, a Content-Encoding,
\* whether a declared gzip stream is one, whether reading the body fails, and
\* the markup; a payload answer is a status, a Content-Type, a
\* Content-Encoding and the body on the wire.
PageScenario ==
    <<Div(<<"download">>), Anchor(<<"/", "downloads", "/", "xyz", ".pdf">>), EndDiv>>
PageNoLink == <<Title(<<"t">>), Text(<<"Captcha">>)>>
PageBadLink == <<Object("application/pdf", <<"http:", "//", "%">>)>>
PageUnavailable == <<Title(<<"Sci-Hub">>), Text(<<"Article Is Not Available">>)>>
Pages == {PageScenario, PageNoLink, PageBadLink, PageUnavailable}

PageAnswer(status, enc, gzok, readok, markup) ==
    [status |-> status, enc |-> enc, gzok |-> gzok, readok |-> readok, markup |-> markup]
PageAnswers ==
    {PageAnswer(st, "", TRUE, TRUE, <<>>) : st \in {TransportErr, StatusForbidden, StatusNotFound, "500"}}
    \cup {PageAnswer(StatusOK, "", TRUE, TRUE, m) : m \in Pages}
    \cup {PageAnswer(StatusOK, "gzip", TRUE, TRUE, PageScenario),
          PageAnswer(StatusOK, "gzip", FALSE, TRUE, <<>>),
          PageAnswer(StatusOK, "", TRUE, FALSE, <<>>)}

\* the answers of a mirror that never asks for a retry
PlainPageAnswers ==
    {PageAnswer("500", "", TRUE, TRUE, <<>>),
     PageAnswer(StatusOK, "", TRUE, TRUE, PageScenario),
     PageAnswer(StatusOK, "", TRUE, TRUE, PageNoLink)}

\* the answer of a mirror that serves every document
LeanPageAnswers == {PageAnswer(StatusOK, "", TRUE, TRUE, PageScenario)}

PdfBody == PdfMagic \o <<"-">>
PdfAnswer(status, ct, enc, body) == [status |-> status, ct |-> ct, enc |-> enc, body |-> body]
PdfAnswers ==
    {PdfAnswer(st, <<>>, "", <<>>) : st \in {TransportErr, StatusForbidden, StatusNotFound, "500"}}
    \cup {PdfAnswer(StatusOK, <<"application/", "pdf">>, "", PdfBody),
          PdfAnswer(StatusOK, <<"application/", "pdf">>, "", <<"<html", "403">>),
          PdfAnswer(StatusOK, <<"application/", "pdf">>, "", <<>>),
          PdfAnswer(StatusOK, <<"text", "/", "html">>, "", <<"<html">>),
          PdfAnswer(StatusOK, <<"text", "/", "html", "; name=x.", "pdf">>, "", <<"<html">>),
          PdfAnswer(StatusOK, <<"application/octet-stream">>, "gzip", GzipMagic \o PdfBody),
          PdfAnswer(StatusOK, <<"application/", "PDF">>, "gzip", PdfBody),
          PdfAnswer(StatusOK, <<>>, "", <<"%", "P", "D">>),
          PdfAnswer(StatusOK, <<"image/png">>, "", GzipMagic \o PdfBody)}

PlainPdfAnswers ==
    {PdfAnswer(StatusOK, <<"application/", "pdf">>, "", PdfBody),
     PdfAnswer(StatusOK, <<"application/", "pdf">>, "", <<"<html", "403">>)}

LeanPdfAnswers == {PdfAnswer(StatusOK, <<"application/", "pdf">>, "", PdfBody)}

\* the answers of a mirror that asks for retries and serves the document
TimedPageAnswers ==
    {PageAnswer(st, "", TRUE, TRUE, <<>>) : st \in {TransportErr, StatusForbidden, StatusNotFound}}
    \cup {PageAnswer(StatusOK, "", TRUE, TRUE, PageScenario)}
TimedPdfAnswers ==
    {PdfAnswer(StatusForbidden, <<>>, "", <<>>),
     PdfAnswer(StatusOK, <<"application/", "pdf">>, "", PdfBody)}

\* ------------------------------------------------------------ state
VARIABLES
    urls,           \* the argument urls of DownloadPDFs
    W,              \* the argument maxWorkers
    env,            \* the surroundings: which answers the mirror gives, whether the disk
                    \* can fail, whether the clock runs
    run,            \* which call of DownloadPDFs on the same directory this is
    dir,            \* whether pdfDir exists: "absent" or "present"
    mpc,            \* DownloadPDFs: "call", "collect", "returned", "error"
    prod,           \* the producer goroutine: index of the next url, 0 before it starts
    jobs,           \* the channel jobs
    jobsClosed,
    results,        \* the channel results
    resultsClosed,
    wk,             \* the worker goroutines and the locals of downloadSinglePDF; stage
                    \* is the part of the job reached ("page", "pdf", "file"), log the
                    \* answers of the stage the job is in or failed in, backoffs the
                    \* waits of that stage, sleeps the pacing sleeps of the job, nap the
                    \* duration of its latest time.Sleep and wake the time that one ends
    stats,          \* the DownloadStats of the call
    final,          \* the files of pdfDir by name
    tmpf,           \* the temporary file each worker created in pdfDir
    debug,          \* the files of pdfDir/debug by name
    now,            \* the clock
    startTime,      \* startTime := time.Now() of DownloadPDFs
    hist,           \* per job: how often it was taken, sent and collected, its outcome,
                    \* when it was enqueued and when taken, and the order in which the
                    \* jobs were collected
    prev,           \* the outcomes of the previous call, by job
    ex,             \* a call of extractPDFURL on its own: its arguments, its locals
                    \* pdfURL and downloadURL, the statement reached, the value returned
    hv,             \* a run of scripts/harvest.sh: its options, the variables of its
                    \* main loop, the archive and the output directory it works on
    cli             \* a run of cmd/main.go up to its call of DownloadPDFs: the flags,
                    \* the DOIs of the archive's records, the locals dois, urls,
                    \* budget and workers

vars == <<urls, W, env, run, dir, mpc, prod, jobs, jobsClosed, results, resultsClosed,
          wk, stats, final, tmpf, debug, now, startTime, hist, prev, ex, hv, cli>>

\* what a call of DownloadPDFs never changes
input == <<urls, W, env, run, now, prev, ex, hv, cli>>
\* the channels and the producer
chans == <<prod, jobs, jobsClosed, results, resultsClosed>>
\* the directory
files == <<dir, final, tmpf, debug>>

Workers == 1..W
JobIds == 1..Len(urls)

\* a file: its bytes, whether this program wrote it ("pipeline") or it was
\* there before the first call ("before"), and the job of the current call
\* that wrote it (0: none of them)
NoFile == [exists |-> FALSE, content |-> <<>>, by |-> "", job |-> 0]
File(content, by, j) == [exists |-> TRUE, content |-> content, by |-> by, job |-> j]
FileNames == {PdfFilename(DoiOf(u)) : u \in {v \in URLS : ~ParseErr(v)}}
DebugNames == {SafeFilename(DoiOf(u)) : u \in {v \in URLS : ~ParseErr(v)}}
EmptyDir == [n \in FileNames |-> NoFile]

\* a result that loses its error message
createResultNoError(status, filename, size, doi, errMsg) ==
    [Status |-> status, Filename |-> filename, Size |-> size, DOI |-> doi,
     Error |-> <<>>, Duration |-> 0]

\* createResult(status, filename, size, doi, errMsg)
createResult(status, filename, size, doi, errMsg) ==
    [Status |-> status, Filename |-> filename, Size |-> size, DOI |-> doi,
     Error |-> errMsg, Duration |-> 0]
NoResult == createResult("", <<>>, 0, <<>>, <<>>)

NoAnswer == PdfAnswer("", <<>>, "", <<>>)

\* a worker that waits at "for job := range jobs"
IdleWorker ==
    [pc |-> "recv", stage |-> "", job |-> 0, url |-> <<>>, start |-> 0, doi |-> <<>>, fname |-> <<>>,
     attempt |-> 0, log |-> <<>>, sleeps |-> 0, backoffs |-> 0, nap |-> 0, wake |-> 0,
     markup |-> <<>>, enc |-> "", gzok |-> TRUE, readok |-> TRUE,
     pdfURL |-> <<>>, resp |-> NoAnswer, written |-> 0,
     existed |-> FALSE, wrote |-> FALSE, result |-> NoResult]

NilStats ==
    [Total |-> 0 - 1, Success |-> 0, Skip |-> 0, Failed |-> 0, TotalSize |-> 0,
     Errors |-> <<>>, AllTimes |-> <<>>, SuccessTime |-> <<>>, TotalTime |-> 0]

NoHist == [taken |-> [j \in JobIds |-> 0], sent |-> [j \in JobIds |-> 0],
           collected |-> [j \in JobIds |-> 0], out |-> [j \in JobIds |-> ""],
           order |-> <<>>, enq |-> [j \in JobIds |-> 0], got |-> [j \in JobIds |-> 0]]

\* the lists of at most n urls
RECURSIVE UrlLists(_)
UrlLists(n) ==
    IF n = 0 THEN {<<>>}
    ELSE UrlLists(n - 1) \cup {Append(l, u) : l \in {k \in UrlLists(n - 1) : Len(k) = n - 1}, u \in URLS}

\* The inputs: every list of at most two urls, in every order and with
\* repetitions; a longer list adds jobs, not orders, and is taken in one order.
LongList == <<UrlXY, UrlXcY, UrlZ, UrlBad>>
InputLists ==
    UrlLists(IF MaxJobs < 2 THEN MaxJobs ELSE 2)
    \cup {SubSeq(LongList, 1, n) : n \in 3..(IF MaxJobs < Len(LongList) THEN MaxJobs ELSE Len(LongList))}

\* The surroundings get plainer as the list gets longer: "full" is a mirror
\* that gives every answer and a disk that can fail, "plain" a mirror that
\* never asks for a retry, "lean" a mirror that serves every document.
EnvOf(l) == IF Len(l) < 2 THEN "full" ELSE IF Len(l) = 2 THEN "plain" ELSE "lean"

\* a file that was in pdfDir before the first call
Junk == <<"j">>
PreDirs == {EmptyDir, [EmptyDir EXCEPT ![PdfFilename(DoiOf(UrlXY))] = File(Junk, "before", 0)]}

\* no run of scripts/harvest.sh: the variables of the script as it sets them
\* before its main loop, dois the number of DOIs in the archive, have the
\* number of them whose PDF is in the output directory, runs the number of
\* times the program was started, seen the verdicts on the latest rounds
NoHarvest ==
    [pc |-> "", why |-> "", MAX_ROUNDS |-> 0, BATCH_SIZE |-> 0, ERROR_THRESHOLD |-> 0,
     MIN_SUCCESS |-> 0, ROUND |-> 0, odd |-> FALSE, CONSECUTIVE_BAD_ROUNDS |-> 0,
     SUCCESS |-> 0, FAILED |-> 0, SKIPPED |-> 0, IS_BAD_ROUND |-> FALSE,
     dois |-> 0, have |-> 0, runs |-> 0, seen |-> <<>>]

\* no run of cmd/main.go: its flags with their defaults (main.go 20-23), no
\* DOI read
NoMain ==
    [pc |-> "", budgetShort |-> 0, budgetLong |-> 0, workersShort |-> 0, workersLong |-> 0,
     allDOIs |-> <<>>, dois |-> <<>>, urls |-> <<>>, budget |-> 0, workers |-> 0]

\* no call of extractPDFURL on its own
NoExtract == [pc |-> "", m |-> <<>>, u |-> <<>>, pdfURL |-> <<>>, downloadURL |-> <<>>, ret |-> <<>>]

\* The clock runs in the surroundings "timed" (a mirror that asks for
\* retries) and "paced" (a mirror that serves every document); in the others
\* time is not observed and now stays 0.
Clock(e) == e \in {"timed", "paced"}
EnvTimed(l) == IF Len(l) < 2 THEN "timed" ELSE "paced"

\* the state before DownloadPDFs(l, pdfDir, n) is called on a directory that
\* holds f, in the surroundings e
Boot(l, nw, f, e) ==
    /\ urls = l
    /\ W = nw
    /\ env = e
    /\ run = 1
    /\ final = f
    /\ dir = IF final = EmptyDir THEN "absent" ELSE "present"
    /\ mpc = "call"
    /\ prod = 0
    /\ jobs = <<>>
    /\ jobsClosed = FALSE
    /\ results = <<>>
    /\ resultsClosed = FALSE
    /\ wk = [w \in Workers |-> [IdleWorker EXCEPT !.pc = "unborn"]]
    /\ stats = NilStats
    /\ tmpf = [w \in Workers |-> NoFile]
    /\ debug = [n \in DebugNames |-> NoFile]
    /\ now = 0
    /\ startTime = 0
    /\ hist = NoHist
    /\ prev = [j \in JobIds |-> ""]

Init ==
    /\ \E l \in InputLists, n \in 0..MaxWorkers, f \in PreDirs : Boot(l, n, f, EnvOf(l))
    /\ ex = NoExtract
    /\ hv = NoHarvest
    /\ cli = NoMain

\* ------------------------------------------------------------ DownloadPDFs
\* a MkdirAll error that is noticed only after the producer was started
MkdirFailLate ==
    /\ mpc = "call"
    /\ dir = "absent"
    /\ mpc' = "error"
    /\ prod' = 1
    /\ UNCHANGED <<input, jobs, jobsClosed, results, resultsClosed, files, wk, stats, startTime, hist>>

\* os.MkdirAll(pdfDir) fails: return nil, err (hive.go 56-58)
MkdirFail ==
    /\ mpc = "call"
    /\ dir = "absent"
    /\ mpc' = "error"
    /\ UNCHANGED <<input, chans, files, wk, stats, startTime, hist>>

\* hive.go 56-129: the directory, the statistics, the channels, the workers,
\* the producer and the waiter
Start ==
    /\ mpc = "call"
    /\ dir' = "present"
    /\ stats' = [NilStats EXCEPT !.Total = Len(urls)]
    /\ wk' = [w \in Workers |-> IdleWorker]
    /\ startTime' = now
    /\ prod' = 1
    /\ mpc' = "collect"
    /\ UNCHANGED <<input, jobs, jobsClosed, results, resultsClosed, final, tmpf, debug, hist>>

\* a receive that leaves the value on the channel
DequeuePeek(q) == q

\* a receive takes the head off the channel
Dequeue(q) == Tail(q)

\* a queue of half the size
CapacityHalf == Len(urls) \div 2

\* the capacity of both channels: make(chan ..., len(urls))
Capacity == Len(urls)

Job(i) == [idx |-> i, url |-> urls[i], startTime |-> now]

\* a send that puts the value in front of the buffered ones
EnqueueFront(q, x) == <<x>> \o q

\* a send on a buffered channel: behind the values it holds
Enqueue(q, x) == Append(q, x)

\* jobs <- jobWithTime{url: u, startTime: time.Now()}
Produce ==
    /\ prod \in JobIds
    /\ Len(jobs) < Capacity
    /\ jobs' = Enqueue(jobs, Job(prod))
    /\ prod' = prod + 1
    /\ hist' = [hist EXCEPT !.enq[prod] = now]
    /\ UNCHANGED <<input, jobsClosed, results, resultsClosed, files, wk, stats, mpc, startTime>>

\* a producer that ends without closing the channel
CloseJobsForgotten ==
    /\ prod = Len(urls) + 1
    /\ ~jobsClosed
    /\ prod' = prod + 1
    /\ UNCHANGED <<input, jobs, jobsClosed, results, resultsClosed, files, wk, stats, mpc, startTime, hist>>

\* close(jobs)
CloseJobs ==
    /\ prod = Len(urls) + 1
    /\ ~jobsClosed
    /\ jobsClosed' = TRUE
    /\ UNCHANGED <<input, prod, jobs, results, resultsClosed, files, wk, stats, mpc, startTime, hist>>

\* a waiter that closes the stream without waiting for the workers
WaitCloseEarly ==
    /\ mpc = "collect"
    /\ ~resultsClosed
    /\ resultsClosed' = TRUE
    /\ UNCHANGED <<input, prod, jobs, jobsClosed, results, files, wk, stats, mpc, startTime, hist>>

\* a stream that the last worker to exit closes: nobody does without workers
WaitCloseByLastWorker ==
    /\ mpc = "collect"
    /\ ~resultsClosed
    /\ W > 0
    /\ \A w \in Workers : wk[w].pc = "exited"
    /\ resultsClosed' = TRUE
    /\ UNCHANGED <<input, prod, jobs, jobsClosed, results, files, wk, stats, mpc, startTime, hist>>

\* wg.Wait(); close(results)
WaitClose ==
    /\ mpc = "collect"
    /\ ~resultsClosed
    /\ \A w \in Workers : wk[w].pc = "exited"
    /\ resultsClosed' = TRUE
    /\ UNCHANGED <<input, prod, jobs, jobsClosed, results, files, wk, stats, mpc, startTime, hist>>

\* a collecting loop that adds the size of a skipped file to the total
AddResultSkipSized(st, r) ==
    LET all == [st EXCEPT !.AllTimes = Append(@, r.Duration)] IN
    CASE r.Status = "success" ->
            [all EXCEPT !.Success = @ + 1, !.TotalSize = @ + r.Size,
                        !.SuccessTime = Append(@, r.Duration)]
      [] r.Status = "skip" -> [all EXCEPT !.Skip = @ + 1, !.TotalSize = @ + r.Size]
      [] r.Status = "failed" ->
            [all EXCEPT !.Failed = @ + 1,
                        !.Errors = Append(@, [URL |-> <<"https://sci-hub.se/">> \o r.DOI,
                                              DOI |-> r.DOI, Error |-> r.Error, Time |-> now])]
      [] OTHER -> all

\* the collecting loop without its case "skip"
AddResultNoSkip(st, r) ==
    LET all == [st EXCEPT !.AllTimes = Append(@, r.Duration)] IN
    CASE r.Status = "success" ->
            [all EXCEPT !.Success = @ + 1, !.TotalSize = @ + r.Size,
                        !.SuccessTime = Append(@, r.Duration)]
      [] r.Status = "failed" -> [all EXCEPT !.Failed = @ + 1]
      [] OTHER -> all

\* the body of the collecting loop, hive.go 132-152
AddResult(st, r) ==
    LET all == [st EXCEPT !.AllTimes = Append(@, r.Duration)] IN
    CASE r.Status = "success" ->
            [all EXCEPT !.Success = @ + 1, !.TotalSize = @ + r.Size,
                        !.SuccessTime = Append(@, r.Duration)]
      [] r.Status = "skip" -> [all EXCEPT !.Skip = @ + 1]
      [] r.Status = "failed" ->
            [all EXCEPT !.Failed = @ + 1,
                        !.Errors = Append(@, [URL |-> <<"https://sci-hub.se/">> \o r.DOI,
                                              DOI |-> r.DOI, Error |-> r.Error, Time |-> now])]
      [] OTHER -> all

\* for result := range results
Collect ==
    /\ mpc = "collect"
    /\ results # <<>>
    /\ stats' = AddResult(stats, Head(results))
    /\ results' = Dequeue(results)
    /\ hist' = [hist EXCEPT !.collected[Head(results).job] = @ + 1,
                             !.out[Head(results).job] = Head(results).Status,
                             !.order = Append(@, Head(results).job)]
    /\ UNCHANGED <<input, prod, jobs, jobsClosed, resultsClosed, files, wk, mpc, startTime>>

\* the loop ends on the closed, drained channel: return stats, nil
Return ==
    /\ mpc = "collect"
    /\ results = <<>>
    /\ resultsClosed
    /\ stats' = [stats EXCEPT !.TotalTime = now - startTime]
    /\ mpc' = "returned"
    /\ UNCHANGED <<input, chans, files, wk, startTime, hist>>

\* DownloadPDFs is called again with the same urls on the same directory
Rerun ==
    /\ mpc \in {"returned", "error"}
    /\ run < MaxRuns
    /\ prod = 0 \/ jobsClosed
    /\ run' = run + 1
    /\ prev' = hist.out
    /\ mpc' = "call"
    /\ prod' = 0
    /\ jobs' = <<>>
    /\ jobsClosed' = FALSE
    /\ results' = <<>>
    /\ resultsClosed' = FALSE
    /\ wk' = [w \in Workers |-> [IdleWorker EXCEPT !.pc = "unborn"]]
    /\ stats' = NilStats
    /\ hist' = NoHist
    /\ final' = [n \in FileNames |-> [final[n] EXCEPT !.job = 0]]
    /\ debug' = [n \in DebugNames |-> [debug[n] EXCEPT !.job = 0]]
    /\ UNCHANGED <<urls, W, env, now, dir, tmpf, startTime, ex, hv, cli>>

\* ------------------------------------------------------------ the workers
\* what a step of worker w leaves alone besides the files
WorkerFrame == <<input, prod, jobsClosed, resultsClosed, stats, mpc, startTime>>

\* a failure that ends the worker instead of being delivered
FailedAborts(w, reason, pc) == [wk[w] EXCEPT !.pc = "exited"]

\* return createResult("failed", ...): the worker goes on to deliver it, through
\* the deferred os.Remove(tmpPath) when the temporary file was created
Failed(w, reason, pc) ==
    [wk[w] EXCEPT !.pc = pc,
                  !.result = createResult("failed", wk[w].fname, 0, wk[w].doi, reason)]

\* what the surroundings can do
PageAnswersOf(e) ==
    CASE e = "full" -> PageAnswers
      [] e = "plain" -> PlainPageAnswers
      [] e = "timed" -> TimedPageAnswers
      [] OTHER -> LeanPageAnswers
PdfAnswersOf(e) ==
    CASE e = "full" -> PdfAnswers
      [] e = "plain" -> PlainPdfAnswers
      [] e = "timed" -> TimedPdfAnswers
      [] OTHER -> LeanPdfAnswers
DiskFails(e) == e = "full"

\* rand.Intn(n), a number in [0, n): in the surroundings "timed" the least and
\* the greatest stand for all of them, elsewhere the least
Intn(n) == IF env = "timed" THEN {0, n - 1} ELSE {0}

\* time.Sleep(d): the goroutine goes on when the clock has reached now + d
Sleep(me, d) == [me EXCEPT !.nap = d, !.wake = now + d]

\* time.Sleep has returned
Awake(w) == Clock(env) => now >= wk[w].wake

\* a wait that does not grow with the attempt
BackoffFlat(attempt, r) == retryDelay + r

\* waitTime := retryDelay*time.Duration(attempt+1) + time.Duration(rand.Intn(2000))*time.Millisecond
Backoff(attempt, r) == retryDelay * (attempt + 1) + r

\* a pacing sleep of a tenth of the time
PaceShort(base, r) == (base + r) \div 10

\* time.Duration(base+rand.Intn(span)) * time.Millisecond
Pace(base, r) == base + r

\* a duration that counts from the moment the worker took the job
StartAtReceive(j) == now

\* job.startTime, for time.Since(job.startTime)
StartOf(j) == j.startTime

\* a retry test that is off by one
RetryAgainOnceMore(attempt) == attempt < maxRetries

\* attempt < maxRetries-1
RetryAgain(attempt) == attempt < maxRetries - 1

\* the answers the page loop retries: transport error, 403, 404
PageRetried(status) == status \in {TransportErr, StatusForbidden, StatusNotFound}

\* the payload loop with the page loop's 404 branch
PdfRetriedLikePage(status) == PageRetried(status)

\* the answers the payload loop retries: transport error, 403
PdfRetried(status) == status \in {TransportErr, StatusForbidden}

\* a skip check that never finds the file
AlreadyThereNever(fs, fname) == FALSE

\* os.Stat(pdfFilePath) returns no error
AlreadyThere(fs, fname) == fs[fname].exists

\* a skip that reports no size
SkipResultNoSize(f, fname, doi) == createResult("skip", fname, 0, doi, <<>>)

\* return createResult("skip", pdfFilename, info.Size(), doi, "")
SkipResult(f, fname, doi) == createResult("skip", fname, Len(f.content), doi, <<>>)

\* for job := range jobs, then hive.go 190-202: the DOI and the file name
Recv(w) ==
    /\ wk[w].pc = "recv"
    /\ jobs # <<>>
    /\ LET j == Head(jobs)
           me == [IdleWorker EXCEPT !.job = j.idx, !.url = j.url, !.start = StartOf(j)]
       IN  /\ wk' = [wk EXCEPT ![w] =
                      IF ParseErr(j.url)
                      THEN [me EXCEPT !.pc = "send",
                                      !.result = createResult("failed", <<>>, 0, <<>>, <<"URL parse">>)]
                      ELSE [me EXCEPT !.pc = "stat", !.doi = DoiOf(j.url),
                                      !.fname = PdfFilename(DoiOf(j.url)),
                                      !.existed = final[PdfFilename(DoiOf(j.url))].exists]]
           /\ hist' = [hist EXCEPT !.taken[j.idx] = @ + 1, !.got[j.idx] = now]
    /\ jobs' = Dequeue(jobs)
    /\ UNCHANGED <<WorkerFrame, results, files>>

\* a range loop that ends as soon as the channel is empty
DrainedEarly(q, closed) == q = <<>>

\* for job := range jobs ends: the channel is closed and empty (hive.go 102)
Drained(q, closed) == q = <<>> /\ closed

\* the range loop ends on the closed, drained channel: wg.Done()
Exit(w) ==
    /\ wk[w].pc = "recv"
    /\ Drained(jobs, jobsClosed)
    /\ wk' = [wk EXCEPT ![w].pc = "exited"]
    /\ UNCHANGED <<WorkerFrame, jobs, results, files, hist>>

\* hive.go 204-213: the skip check, then the pacing sleep
Stat(w) ==
    /\ wk[w].pc = "stat"
    /\ \E r \in Intn(PaceSpan) :
         wk' = [wk EXCEPT ![w] =
                IF AlreadyThere(final, wk[w].fname)
                THEN [wk[w] EXCEPT !.pc = "send",
                                   !.result = SkipResult(final[wk[w].fname], wk[w].fname,
                                                         wk[w].doi)]
                ELSE Sleep([wk[w] EXCEPT !.pc = "page", !.stage = "page", !.attempt = 0,
                                         !.sleeps = @ + 1], Pace(PaceMin, r))]
    /\ UNCHANGED <<WorkerFrame, jobs, results, files, hist>>

\* one turn of the page loop, hive.go 221-266
GetPage(w) ==
    /\ wk[w].pc = "page"
    /\ Awake(w)
    /\ \E a \in PageAnswersOf(env), r \in Intn(BackoffSpan) :
         LET me == [wk[w] EXCEPT !.log = Append(@, a.status)] IN
         wk' = [wk EXCEPT ![w] =
            IF PageRetried(a.status)
            THEN IF RetryAgain(me.attempt)
                 THEN Sleep([me EXCEPT !.attempt = @ + 1, !.backoffs = @ + 1],
                            Backoff(me.attempt, r))
                 ELSE [me EXCEPT !.pc = "send",
                                 !.result = createResult("failed", me.fname, 0, me.doi,
                                                <<"page request", a.status, "retried">>)]
            ELSE IF a.status # StatusOK
            THEN [me EXCEPT !.pc = "send",
                            !.result = createResult("failed", me.fname, 0, me.doi,
                                           <<"page request", a.status>>)]
            ELSE [me EXCEPT !.pc = "read", !.markup = a.markup, !.enc = a.enc,
                            !.gzok = a.gzok, !.readok = a.readok]]
    /\ UNCHANGED <<WorkerFrame, jobs, results, files, hist>>

\* a job that saves nothing
SaveDebugNothing(dbg, me) == dbg

\* hive.go 324-330: the raw markup goes to debug/<sanitized doi>.html
SaveDebug(dbg, me) == [dbg EXCEPT ![SafeFilename(me.doi)] = File(me.markup, "pipeline", me.job)]

\* a test that lets every result of the extraction pass
NoLinkNever(link) == FALSE

\* hive.go 297: if pdfURL == "", no link was found
NoLink(link) == link = <<>>

\* hive.go 273-338: read and parse the page, extract the link; on failure
\* classify it and save the markup, else the second pacing sleep
ReadPage(w) ==
    /\ wk[w].pc = "read"
    /\ \E r \in Intn(PdfPaceSpan) :
       LET me == wk[w]
           link == extractPDFURL(me.markup, me.url)
       IN  IF me.enc = "gzip" /\ ~me.gzok
           THEN /\ wk' = [wk EXCEPT ![w] = Failed(w, <<"page gunzip">>, "send")]
                /\ UNCHANGED debug
           ELSE IF ~me.readok
           THEN /\ wk' = [wk EXCEPT ![w] = Failed(w, <<"page read">>, "send")]
                /\ UNCHANGED debug
           ELSE IF NoLink(link)
           THEN /\ wk' = [wk EXCEPT ![w] =
                            [Failed(w, ExtractError(me.markup), "send") EXCEPT !.wrote = TRUE]]
                /\ debug' = SaveDebug(debug, me)
           ELSE /\ wk' = [wk EXCEPT ![w] =
                            Sleep([me EXCEPT !.pc = "pdf", !.stage = "pdf", !.pdfURL = link,
                                             !.attempt = 0, !.log = <<>>, !.backoffs = 0,
                                             !.sleeps = @ + 1, !.markup = <<>>],
                                  Pace(PdfPaceMin, r))]
                /\ UNCHANGED debug
    /\ UNCHANGED <<WorkerFrame, jobs, results, dir, final, tmpf, hist>>

\* one turn of the payload loop and the Content-Type test, hive.go 342-391
GetPdf(w) ==
    /\ wk[w].pc = "pdf"
    /\ Awake(w)
    /\ IF ParseErr(wk[w].pdfURL)
       THEN wk' = [wk EXCEPT ![w] = Failed(w, <<"create PDF request">>, "send")]
       ELSE \E a \in PdfAnswersOf(env), r \in Intn(BackoffSpan) :
         LET me == [wk[w] EXCEPT !.log = Append(@, a.status)] IN
         wk' = [wk EXCEPT ![w] =
            IF PdfRetried(a.status)
            THEN IF RetryAgain(me.attempt)
                 THEN Sleep([me EXCEPT !.attempt = @ + 1, !.backoffs = @ + 1],
                            Backoff(me.attempt, r))
                 ELSE [me EXCEPT !.pc = "send",
                                 !.result = createResult("failed", me.fname, 0, me.doi,
                                                <<"PDF download", a.status, "retried">>)]
            ELSE IF a.status # StatusOK
            THEN [me EXCEPT !.pc = "send",
                            !.result = createResult("failed", me.fname, 0, me.doi,
                                           <<"PDF download", a.status>>)]
            ELSE IF ContentTypeRejected(a.ct)
            THEN [me EXCEPT !.pc = "send", !.resp = a,
                            !.result = createResult("failed", me.fname, 0, me.doi,
                                           <<"PDF download", "HTML not PDF">>)]
            ELSE [me EXCEPT !.pc = "mktemp", !.stage = "file", !.resp = a,
                            !.log = <<>>, !.backoffs = 0]]
    /\ UNCHANGED <<WorkerFrame, jobs, results, files, hist>>

\* os.CreateTemp(pdfDir, "*.tmp") and defer os.Remove(tmpPath), hive.go 394-399
CreateTemp(w) ==
    /\ wk[w].pc = "mktemp"
    /\ \/ /\ tmpf' = [tmpf EXCEPT ![w] = File(<<>>, "pipeline", wk[w].job)]
          /\ wk' = [wk EXCEPT ![w].pc = "copy", ![w].wrote = TRUE]
       \/ /\ DiskFails(env)
          /\ wk' = [wk EXCEPT ![w] = Failed(w, <<"create temp file">>, "send")]
          /\ UNCHANGED tmpf
    /\ UNCHANGED <<WorkerFrame, jobs, results, dir, final, debug, hist>>

\* the prefixes of a body that a failing io.Copy may have written
Prefixes(body) == {SubSeq(body, 1, k) : k \in 0..(IF body = <<>> THEN 0 ELSE Len(body) - 1)}

\* hive.go 402-422: gzip.NewReader, io.Copy into the temporary file, the size
CopyBody(w) ==
    /\ wk[w].pc = "copy"
    /\ LET me == wk[w]
           body == Decoded(me.resp)
       IN  IF me.resp.enc = "gzip" /\ GzipErr(me.resp.body)
           THEN /\ wk' = [wk EXCEPT ![w] = Failed(w, <<"PDF gunzip">>, "cleanup")]
                /\ UNCHANGED tmpf
           ELSE \/ /\ tmpf' = [tmpf EXCEPT ![w].content = body]
                   /\ wk' = [wk EXCEPT ![w] =
                               IF Len(body) = 0
                               THEN Failed(w, <<"size 0">>, "cleanup")
                               ELSE [me EXCEPT !.pc = "validate", !.written = Len(body)]]
                \/ \E part \in Prefixes(body) :
                      /\ DiskFails(env)
                      /\ tmpf' = [tmpf EXCEPT ![w].content = part]
                      /\ wk' = [wk EXCEPT ![w] = Failed(w, <<"write file">>, "cleanup")]
    /\ UNCHANGED <<WorkerFrame, jobs, results, dir, final, debug, hist>>

\* hive.go 425-460: open the temporary file, read its header, compare
Validate(w) ==
    /\ wk[w].pc = "validate"
    /\ \/ DiskFails(env) /\ wk' = [wk EXCEPT ![w] = Failed(w, <<"open file">>, "cleanup")]
       \/ DiskFails(env) /\ wk' = [wk EXCEPT ![w] = Failed(w, <<"read header">>, "cleanup")]
       \/ wk' = [wk EXCEPT ![w] =
                   IF IsPDF(tmpf[w].content)
                   THEN [wk[w] EXCEPT !.pc = "rename"]
                   ELSE Failed(w, NotPdfError(tmpf[w].content), "cleanup")]
    /\ UNCHANGED <<WorkerFrame, jobs, results, files, hist>>

\* os.Rename(tmpPath, pdfFilePath), hive.go 463-467
Rename(w) ==
    /\ wk[w].pc = "rename"
    /\ \/ /\ final' = [final EXCEPT ![wk[w].fname] = tmpf[w]]
          /\ tmpf' = [tmpf EXCEPT ![w] = NoFile]
          /\ wk' = [wk EXCEPT ![w].pc = "cleanup",
                               ![w].result = createResult("success", wk[w].fname,
                                                 wk[w].written, wk[w].doi, <<>>)]
       \/ /\ DiskFails(env)
          /\ wk' = [wk EXCEPT ![w] = Failed(w, <<"move file">>, "cleanup")]
          /\ UNCHANGED <<final, tmpf>>
    /\ UNCHANGED <<WorkerFrame, jobs, results, dir, debug, hist>>

\* a return without the deferred removal
CleanupForgotten(w) ==
    /\ wk[w].pc = "cleanup"
    /\ wk' = [wk EXCEPT ![w].pc = "send"]
    /\ UNCHANGED <<WorkerFrame, jobs, results, files, hist>>

\* the deferred os.Remove(tmpPath) as downloadSinglePDF returns
Cleanup(w) ==
    /\ wk[w].pc = "cleanup"
    /\ tmpf' = [tmpf EXCEPT ![w] = NoFile]
    /\ wk' = [wk EXCEPT ![w].pc = "send"]
    /\ UNCHANGED <<WorkerFrame, jobs, results, dir, final, debug, hist>>

\* the DownloadResult on the channel, with the job it belongs to
Outcome(r, j, d) ==
    [Status |-> r.Status, Filename |-> r.Filename, Size |-> r.Size, DOI |-> r.DOI,
     Error |-> r.Error, Duration |-> d, job |-> j]

\* a worker that counts its own result instead of sending it to the collector
SendAndCount(w) ==
    /\ wk[w].pc = "send"
    /\ stats' = AddResult(stats, Outcome(wk[w].result, wk[w].job, now - wk[w].start))
    /\ hist' = [hist EXCEPT !.sent[wk[w].job] = @ + 1, !.collected[wk[w].job] = @ + 1,
                             !.out[wk[w].job] = wk[w].result.Status,
                             !.order = Append(@, wk[w].job)]
    /\ wk' = [wk EXCEPT ![w] = IdleWorker]
    /\ UNCHANGED <<input, chans, mpc, startTime, files>>

\* result.Duration = time.Since(job.startTime); results <- result
Send(w) ==
    /\ wk[w].pc = "send"
    /\ Len(results) < Capacity
    /\ results' = Append(results, Outcome(wk[w].result, wk[w].job, now - wk[w].start))
    /\ hist' = [hist EXCEPT !.sent[wk[w].job] = @ + 1]
    /\ wk' = [wk EXCEPT ![w] = IdleWorker]
    /\ UNCHANGED <<WorkerFrame, jobs, files>>

Next ==
    \/ MkdirFail \/ Start \/ Produce \/ CloseJobs \/ WaitClose \/ Collect \/ Return
    \/ \E w \in Workers : Recv(w)
    \/ \E w \in Workers : Exit(w)
    \/ \E w \in Workers : Stat(w)
    \/ \E w \in Workers : GetPage(w)
    \/ \E w \in Workers : ReadPage(w)
    \/ \E w \in Workers : GetPdf(w)
    \/ \E w \in Workers : CreateTemp(w)
    \/ \E w \in Workers : CopyBody(w)
    \/ \E w \in Workers : Validate(w)
    \/ \E w \in Workers : Rename(w)
    \/ \E w \in Workers : Cleanup(w)
    \/ \E w \in Workers : Send(w)

Spec == Init /\ [][Next]_vars

\* the same with a second call on the directory the first call left
NextRerun == Next \/ Rerun
SpecRerun == Init /\ [][NextRerun]_vars

\* ------------------------------------------------------------ the clock
\* Time passes: the clock reaches the end of the sleep of some goroutine.  A
\* goroutine that is awake may still take its next step at any later time.
Tick ==
    /\ Clock(env)
    /\ \E w \in Workers : wk[w].wake > now /\ now' = wk[w].wake
    /\ UNCHANGED <<urls, W, env, run, prev, ex, hv, cli, chans, files, wk, stats, mpc, startTime, hist>>

\* the calls with at least one worker, on a directory that does not exist yet,
\* where the clock runs
InitTimed ==
    /\ \E l \in InputLists, n \in 1..MaxWorkers : Boot(l, n, EmptyDir, EnvTimed(l))
    /\ ex = NoExtract
    /\ hv = NoHarvest
    /\ cli = NoMain

NextTimed == Next \/ Tick
SpecTimed == InitTimed /\ [][NextTimed]_vars

\* ------------------------------------------------------------ scheduling
\* The Go scheduler runs a goroutine that can run, and every call of
\* client.Do returns (a response, an error or the client's timeout): while
\* the calling goroutine, the producer, the waiter or a worker can take a step,
\* a step is taken.
Fairness == WF_vars(Next)

\* the calls with at least one worker on a directory that does not exist yet
InitFair ==
    /\ \E l \in InputLists, n \in 1..MaxWorkers : Boot(l, n, EmptyDir, EnvOf(l))
    /\ ex = NoExtract
    /\ hv = NoHarvest
    /\ cli = NoMain

SpecFair == InitFair /\ [][Next]_vars /\ Fairness

\* the calls with one worker at most, also with none and with a negative
\* count: "for i := 0; i < maxWorkers; i++" starts no worker then
InitFewWorkers ==
    /\ \E l \in InputLists, n \in (0 - 1)..1 : Boot(l, n, EmptyDir, EnvOf(l))
    /\ ex = NoExtract
    /\ hv = NoHarvest
    /\ cli = NoMain

SpecFewWorkers == InitFewWorkers /\ [][Next]_vars /\ Fairness

\* ------------------------------------------------------------ claims
NoDup(l) == \A i, k \in 1..Len(l) : l[i] = l[k] => i = k
Busy(w) == wk[w].pc \notin {"unborn", "recv", "exited"}
Statuses == {"success", "skip", "failed"}
Count(st) == Cardinality({j \in JobIds : hist.out[j] = st})

\* C1: for a duplicate-free list and W >= 1, when DownloadPDFs returns, Total
\* is the number of urls and Success + Skip + Failed is that number too
C1_TotalsAtReturn ==
    (mpc = "returned" /\ W >= 1 /\ NoDup(urls)) =>
        /\ stats.Total = Len(urls)
        /\ stats.Success + stats.Skip + stats.Failed = Len(urls)

\* two distinct urls, the second collected first, one of them skipped
C1_Witness ==
    /\ mpc = "returned" /\ W >= 2 /\ NoDup(urls)
    /\ hist.order = <<2, 1>>
    /\ stats.Total = 2 /\ stats.Skip = 1

\* where job j is: not yet produced, on the job channel, with a worker, on the
\* result channel, collected
Places(j) ==
    (IF mpc # "call" /\ prod <= j /\ mpc # "error" THEN 1 ELSE 0)
    + Cardinality({i \in 1..Len(jobs) : jobs[i].idx = j})
    + Cardinality({w \in Workers : Busy(w) /\ wk[w].job = j})
    + Cardinality({i \in 1..Len(results) : results[i].job = j})
    + hist.collected[j]

\* C2: every job is taken by one worker at most once, gives one Outcome, and
\* the Outcome is collected once; nothing is dropped or doubled on the way,
\* and at the return of a call with workers every job has been through all of it
C2_ExactlyOnce ==
    \A j \in JobIds :
        /\ hist.collected[j] <= hist.sent[j]
        /\ hist.sent[j] <= hist.taken[j]
        /\ hist.taken[j] <= 1
        /\ mpc \in {"collect", "returned"} => Places(j) = 1
        /\ (mpc = "returned" /\ W >= 1) => hist.collected[j] = 1

\* two workers hold the two jobs at the same time
C2_Witness ==
    /\ W = 2 /\ Len(urls) = 2
    /\ Busy(1) /\ Busy(2) /\ wk[1].job = 2 /\ wk[2].job = 1

\* the complete bodies the mirror can send with status 200
Payloads == {Decoded(a) : a \in {b \in PdfAnswers : b.status = StatusOK}}

\* every file this program put at a final path is a complete, validated payload
C3_FilesValid ==
    \A n \in FileNames :
        (final[n].exists /\ final[n].by = "pipeline") =>
            /\ Len(final[n].content) >= 4
            /\ SubSeq(final[n].content, 1, 4) = <<"%", "P", "D", "F">>
            /\ final[n].content \in Payloads

\* a step changes the final files only by one worker's successful rename of
\* its temporary file; a step that makes a job fail changes none
C3_OnlyRename ==
    /\ final' # final =>
          \E w \in Workers :
              /\ wk[w].pc = "rename" /\ wk'[w].result.Status = "success"
              /\ final' = [final EXCEPT ![wk[w].fname] = tmpf[w]]
              /\ tmpf'[w] = NoFile
    /\ \A w \in Workers :
          (wk'[w].result.Status = "failed" /\ wk[w].result.Status # "failed") => final' = final

\* C3: in every reachable state a file put at a final path by the pipeline is
\* a complete payload that passed validation, also when two jobs have the same
\* path, and a failure between the writing of the temporary file and the
\* rename puts no file at the final path
C3_AtomicCommit == []C3_FilesValid /\ [][C3_OnlyRename]_vars

\* two jobs with the same final path: one has put its file there, the other
\* has written its temporary file and failed
C3_Witness ==
    \E w, v \in Workers :
        /\ w # v /\ wk[w].fname = wk[v].fname
        /\ wk[w].pc = "cleanup" /\ wk[w].result.Status = "failed" /\ tmpf[w].content # <<>>
        /\ final[wk[v].fname].exists /\ final[wk[v].fname].job = wk[v].job
        /\ wk[v].result.Status = "success"

\* C4: a failure of a job becomes the "failed" Outcome of that job, the other
\* jobs are processed all the same, and the call returns its statistics: the
\* only error of DownloadPDFs comes before any job is enqueued or taken
C4_FailureStaysLocal ==
    /\ mpc = "error" => (prod = 0 /\ stats = NilStats /\ \A j \in JobIds : hist.taken[j] = 0)
    /\ (mpc = "returned" /\ W >= 1) =>
          /\ \A j \in JobIds : hist.out[j] \in Statuses
          /\ \A j \in JobIds : ParseErr(urls[j]) => hist.out[j] = "failed"
          /\ stats.Failed = Count("failed") /\ Len(stats.Errors) = Count("failed")
          /\ stats.Success = Count("success") /\ stats.Skip = Count("skip")
    /\ \A w \in Workers :
          (wk[w].result.Status = "failed") => wk[w].pc \in {"cleanup", "send"}

\* one worker: the first job failed, the second was downloaded afterwards
C4_Witness ==
    /\ mpc = "returned" /\ W = 1 /\ Len(urls) = 2
    /\ hist.out[1] = "failed" /\ hist.out[2] = "success"
    /\ stats.Failed = 1 /\ stats.Success = 1

\* a job that found its file at the start is at the skip check or delivers
\* "skip": no request, no pacing sleep, no backoff, nothing written
C5_NoWork ==
    \A w \in Workers :
        wk[w].existed =>
            /\ wk[w].pc \in {"stat", "send"}
            /\ wk[w].stage = "" /\ wk[w].log = <<>>
            /\ wk[w].sleeps = 0 /\ wk[w].backoffs = 0
            /\ ~wk[w].wrote /\ ~tmpf[w].exists
            /\ wk[w].pc = "send" => (wk[w].result.Status = "skip" /\ wk[w].result.Error = <<>>)

\* the skip check of a job whose file exists gives "skip" with the size of
\* that file and changes no file
C5_SkipStep ==
    \A w \in Workers :
        (wk[w].pc = "stat" /\ wk'[w] # wk[w] /\ final[wk[w].fname].exists) =>
            /\ wk'[w].pc = "send"
            /\ wk'[w].result = createResult("skip", wk[w].fname,
                                    Len(final[wk[w].fname].content), wk[w].doi, <<>>)
            /\ wk'[w].log = <<>> /\ wk'[w].sleeps = 0
            /\ final' = final /\ tmpf' = tmpf /\ debug' = debug

\* C5: a job whose output file exists when it starts reports "skip" with the
\* file's size, issues no page and no payload request, does not sleep and
\* writes nothing
C5_SkipNoNetwork == []C5_NoWork /\ [][C5_SkipStep]_vars

\* a job found a file of one byte and is about to deliver its "skip"
C5_Witness ==
    \E w \in Workers :
        /\ wk[w].existed /\ wk[w].pc = "send"
        /\ wk[w].result.Status = "skip" /\ wk[w].result.Size = 1

All(l, st) == l # <<>> /\ \A i \in 1..Len(l) : l[i] = st

\* C7: a page endpoint, and likewise a payload endpoint, that answers 403 to
\* every attempt gets exactly 3 requests, and then the job is "failed"
C7_Retry403 ==
    \A w \in Workers :
        All(wk[w].log, StatusForbidden) =>
            /\ wk[w].stage \in {"page", "pdf"}
            /\ Len(wk[w].log) <= 3
            /\ Len(wk[w].log) < 3 => wk[w].pc = wk[w].stage
            /\ Len(wk[w].log) = 3 => (wk[w].pc = "send" /\ wk[w].result.Status = "failed")

\* the payload endpoint answered 403 three times and the job failed
C7_Witness ==
    \E w \in Workers :
        /\ wk[w].stage = "pdf" /\ wk[w].log = <<"403", "403", "403">>
        /\ wk[w].pc = "send" /\ wk[w].result.Status = "failed"

\* C8: a page endpoint that answers 404 to every attempt gets exactly 2
\* requests, the original and one retry, and then the job is "failed"
C8_Retry404Once ==
    \A w \in Workers :
        (wk[w].stage = "page" /\ All(wk[w].log, StatusNotFound)) =>
            /\ Len(wk[w].log) <= 2
            /\ Len(wk[w].log) < 2 => wk[w].pc = "page"
            /\ Len(wk[w].log) = 2 => (wk[w].pc = "send" /\ wk[w].result.Status = "failed")

\* the statuses a stage does not retry: for the page all but 200, 403 and
\* 404, for the payload all but 200 and 403
FinalStatus(stage, st) ==
    /\ st \notin {TransportErr, StatusOK, StatusForbidden}
    /\ stage = "page" => st # StatusNotFound

\* C9: a status that is not retried ends the job at once, on whichever
\* attempt it comes: the job is "failed", issues no further request and does
\* not wait (each earlier answer was followed by one backoff, this one by none)
C9_NoRetry ==
    \A w \in Workers :
        (wk[w].log # <<>> /\ FinalStatus(wk[w].stage, wk[w].log[Len(wk[w].log)])) =>
            /\ wk[w].pc = "send" /\ wk[w].result.Status = "failed"
            /\ wk[w].backoffs = Len(wk[w].log) - 1
            /\ wk[w].sleeps = IF wk[w].stage = "page" THEN 1 ELSE 2

\* the payload endpoint answered 404 on the second attempt
C9_Witness ==
    \E w \in Workers :
        /\ wk[w].stage = "pdf" /\ wk[w].log = <<"403", "404">>
        /\ wk[w].pc = "send" /\ wk[w].result.Status = "failed"

\* the bytes the job wrote or would write: the decoded body of the answer
Wire(w) == Decoded(wk[w].resp)

\* C10: "success" only for bytes that are not empty and begin with %PDF; a
\* body that begins with <html, whatever its Content-Type, and an empty body
\* give "failed" and no file of this job at the final path
C10_IntegrityGate ==
    \A w \in Workers :
        /\ wk[w].result.Status = "success" =>
              /\ wk[w].written > 0 /\ wk[w].result.Size = Len(Wire(w))
              /\ Len(Wire(w)) >= 4 /\ SubSeq(Wire(w), 1, 4) = <<"%", "P", "D", "F">>
        /\ (/\ wk[w].stage = "file" /\ wk[w].pc \in {"cleanup", "send"}
            /\ Wire(w) = <<>> \/ (Len(Wire(w)) > 0 /\ Wire(w)[1] = "<html")) =>
              /\ wk[w].result.Status = "failed"
              /\ ~(final[wk[w].fname].exists /\ final[wk[w].fname].job = wk[w].job)

\* status 200, application/pdf, a body that begins with <html: rejected after
\* the header test, the temporary file removed
C10_Witness ==
    \E w \in Workers :
        /\ wk[w].pc = "send" /\ wk[w].result.Status = "failed"
        /\ wk[w].resp.status = StatusOK /\ wk[w].resp.ct = <<"application/", "pdf">>
        /\ Len(wk[w].resp.body) > 0 /\ wk[w].resp.body[1] = "<html"
        /\ Len(wk[w].result.Error) > 0 /\ wk[w].result.Error[1] = "not a PDF"
        /\ ~tmpf[w].exists /\ ~final[wk[w].fname].exists

\* ------------------------------------------------------------ extractPDFURL, statement by statement
\* The tags a page is made of: containers whose class list is or holds
\* "download", anchors with a /download/ link, a .pdf link, a plain link, a
\* link that does not parse and a link in capitals, typed and untyped objects,
\* accepted and ignored iframes, and tags inside a comment.
TagSet ==
    {Div(<<"download">>), Div(<<"box", "download">>), EndDiv,
     Anchor(<<"/download/", "f">>), Anchor(<<"/", "a", ".pdf">>), Anchor(<<"/", "about">>),
     Anchor(<<"%">>), Anchor(<<"/Download/", "g">>),
     Object("application/pdf", <<"/", "o", ".pdf", "#", "v">>), Object("", <<"/", "e">>),
     Iframe(<<"/", "i", ".PDF">>), Iframe(<<"/", "frame">>),
     Hidden(Div(<<"download">>)), Hidden(Anchor(<<"/", "h">>)), Hidden(Object("", <<"/", "c">>))}

\* the pages of at most MaxTags tags
Markups == UNION {[1..k -> TagSet] : k \in 0..MaxTags}

\* the body of the Each of strategy 1 (hive.go 486-491) on a resolved link r
Pick1First(acc, r) == IF acc.pdfURL = <<>> THEN [acc EXCEPT !.pdfURL = r] ELSE acc
Pick1(acc, r) ==
    IF Contains(r, "/download/") THEN [acc EXCEPT !.downloadURL = r]
    ELSE IF acc.pdfURL = <<>> THEN [acc EXCEPT !.pdfURL = r]
    ELSE acc

\* doc.Find("div.download a").Each(...), from tag i on (hive.go 482-494)
RECURSIVE Each1(_, _, _, _)
Each1(m, u, i, acc) ==
    IF i > Len(m) THEN acc
    ELSE LET r == resolveURL(u, m[i].ref) IN
         Each1(m, u, i + 1,
               IF m[i].t = "a" /\ ~m[i].hid /\ InDownload(m, i) /\ r # <<>>
               THEN Pick1(acc, r) ELSE acc)

\* doc.Find("object[type='application/pdf']").Each(...) when typed, else
\* doc.Find("object[data]").Each(...) (hive.go 505-518, 525-538)
RECURSIVE EachObject(_, _, _, _, _)
EachObject(m, u, i, typed, pdfURL) ==
    IF i > Len(m) THEN pdfURL
    ELSE LET r == resolveURL(u, StripFragment(m[i].ref))
             sel == /\ m[i].t = "object" /\ ~m[i].hid
                    /\ IF typed THEN m[i].typ = "application/pdf" ELSE m[i].ref # <<>>
         IN  EachObject(m, u, i + 1, typed,
                        IF sel /\ pdfURL = <<>> /\ r # <<>> THEN r ELSE pdfURL)

\* doc.Find("iframe[src]").Each(...) (hive.go 545-557)
RECURSIVE EachIframe(_, _, _, _)
EachIframe(m, u, i, pdfURL) ==
    IF i > Len(m) THEN pdfURL
    ELSE LET r == resolveURL(u, m[i].ref)
             sel == m[i].t = "iframe" /\ ~m[i].hid /\ m[i].ref # <<>>
         IN  EachIframe(m, u, i + 1,
                        IF /\ sel /\ pdfURL = <<>> /\ r # <<>>
                           /\ Contains(ToLower(r), ".pdf") \/ Contains(r, "/download/")
                        THEN r ELSE pdfURL)

\* doc.Find("a[href]").Each(...) (hive.go 585-597)
RECURSIVE EachAnchor(_, _, _, _)
EachAnchor(m, u, i, pdfURL) ==
    IF i > Len(m) THEN pdfURL
    ELSE LET r == resolveURL(u, m[i].ref)
             sel == m[i].t = "a" /\ ~m[i].hid /\ m[i].ref # <<>>
             low == ToLower(m[i].ref)
         IN  EachAnchor(m, u, i + 1,
                        IF /\ sel /\ pdfURL = <<>>
                           /\ Contains(low, "/download/") \/ Contains(low, ".pdf")
                           /\ r # <<>>
                        THEN r ELSE pdfURL)

\* the statement that follows a strategy that returned nothing
ThenSkipping(pc) ==
    CASE pc = "s1" -> "s3" [] pc = "s3" -> "s4" [] pc = "s4" -> "s5" [] OTHER -> "s6"
Then(pc) ==
    CASE pc = "s1" -> "s2" [] pc = "s2" -> "s3" [] pc = "s3" -> "s4"
      [] pc = "s4" -> "s5" [] OTHER -> "s6"

\* return url
Returns(url) == ex' = [ex EXCEPT !.pc = "done", !.ret = url]

\* the pipeline is not running
Aside == UNCHANGED <<urls, W, env, run, dir, mpc, prod, jobs, jobsClosed, results, resultsClosed,
                     wk, stats, final, tmpf, debug, now, startTime, hist, prev, hv, cli>>

\* base, err := url.Parse(baseURL) (hive.go 473-476)
ParseBase ==
    /\ ex.pc = "parse"
    /\ IF ParseErr(ex.u) THEN Returns(<<>>) ELSE ex' = [ex EXCEPT !.pc = "s1"]
    /\ Aside

\* strategy 1 (hive.go 481-502)
TryDownloadDiv ==
    /\ ex.pc = "s1"
    /\ LET acc == Each1(ex.m, ex.u, 1, [downloadURL |-> ex.downloadURL, pdfURL |-> ex.pdfURL]) IN
        IF acc.downloadURL # <<>>
        THEN ex' = [ex EXCEPT !.pc = "done", !.ret = acc.downloadURL,
                              !.downloadURL = acc.downloadURL, !.pdfURL = acc.pdfURL]
        ELSE IF acc.pdfURL # <<>>
        THEN ex' = [ex EXCEPT !.pc = "done", !.ret = acc.pdfURL, !.pdfURL = acc.pdfURL]
        ELSE ex' = [ex EXCEPT !.pc = Then("s1")]
    /\ Aside

\* a strategy that walks the document: pdfURL after the walk, returned if set
Walked(pc, found) ==
    IF found # <<>> THEN ex' = [ex EXCEPT !.pc = "done", !.ret = found, !.pdfURL = found]
    ELSE ex' = [ex EXCEPT !.pc = Then(pc)]

\* strategy 2 (hive.go 504-522)
TryTypedObject ==
    /\ ex.pc = "s2"
    /\ Walked("s2", EachObject(ex.m, ex.u, 1, TRUE, ex.pdfURL))
    /\ Aside

\* strategy 3 (hive.go 524-542)
TryAnyObject ==
    /\ ex.pc = "s3"
    /\ Walked("s3", EachObject(ex.m, ex.u, 1, FALSE, ex.pdfURL))
    /\ Aside

\* strategy 4 (hive.go 544-561)
TryIframe ==
    /\ ex.pc = "s4"
    /\ Walked("s4", EachIframe(ex.m, ex.u, 1, ex.pdfURL))
    /\ Aside

\* strategy 5 (hive.go 563-582): the two patterns on the raw markup
TryPatterns ==
    /\ ex.pc = "s5"
    /\ LET div == resolveURL(ex.u, DownloadPattern(ex.m))
           obj == resolveURL(ex.u, StripFragment(ObjectPattern(ex.m)))
       IN  IF div # <<>> THEN Returns(div)
           ELSE IF obj # <<>> THEN Returns(obj)
           ELSE ex' = [ex EXCEPT !.pc = Then("s5")]
    /\ Aside

\* strategy 6 and the final return (hive.go 584-603)
TryAnyAnchor ==
    /\ ex.pc = "s6"
    /\ LET found == EachAnchor(ex.m, ex.u, 1, ex.pdfURL) IN
        ex' = [ex EXCEPT !.pc = "done", !.ret = found, !.pdfURL = found]
    /\ Aside

\* extractPDFURL(doc, htmlContent, baseURL) is called on a page of Markups
InitExtract ==
    /\ Boot(<<>>, 0, EmptyDir, "full")
    /\ ex \in {[NoExtract EXCEPT !.pc = "parse", !.m = m, !.u = u] : m \in Markups, u \in {UrlXY, UrlBad}}
    /\ hv = NoHarvest
    /\ cli = NoMain

NextExtract ==
    \/ ParseBase
    \/ TryDownloadDiv
    \/ TryTypedObject
    \/ TryAnyObject
    \/ TryIframe
    \/ TryPatterns
    \/ TryAnyAnchor

SpecExtract == InitExtract /\ [][NextExtract]_vars

\* ------------------------------------------------------------ the reason of a failed extraction
\* n times the character c
Rep(c, n) == [i \in 1..n |-> c]

\* The titles of the pages: none, short, of TitleLimit and of TitleLimit + 1
\* one-byte characters, of 17 three-byte characters, and with a marker.
Titles ==
    {<<>>, <<"t">>, Rep("t", TitleLimit), Rep("t", TitleLimit + 1), Rep("U+6587", 17),
     <<"Article Is Not Available">>, <<"Captcha">>}

\* what the text of a page can hold: the markers and other text
BodyTokens ==
    {"x", "article is not available", "not available through sci-hub",
     "Captcha", "captcha", "Not Found", "404"}

\* pages without a link: a title, a text, a text inside a comment
ErrorPages ==
    {<<Title(t), Text(<<a>>), Hidden(Text(<<b>>))>> : t \in Titles, a \in BodyTokens, b \in BodyTokens}

\* hive.go 297-322: extraction gave nothing and errorMsg is composed
Classify ==
    /\ ex.pc = "classify"
    /\ extractPDFURL(ex.m, ex.u) = <<>>
    /\ ex' = [ex EXCEPT !.pc = "classified", !.ret = ExtractError(ex.m)]
    /\ Aside

InitClassify ==
    /\ Boot(<<>>, 0, EmptyDir, "full")
    /\ ex \in {[NoExtract EXCEPT !.pc = "classify", !.m = m, !.u = UrlXY] : m \in ErrorPages}
    /\ hv = NoHarvest
    /\ cli = NoMain

SpecClassify == InitClassify /\ [][Classify]_vars

\* a declared content type that is textual or HTML
Textual(ct) == Contains(ToLower(ct), "html") \/ Contains(ToLower(ct), "text")

\* C11: a payload answer with status 200 that declares a textual or HTML
\* content type fails the job at once: no temporary file is created and
\* nothing is written
C11_TextualRejected ==
    \A w \in Workers :
        (wk[w].resp.status = StatusOK /\ Textual(wk[w].resp.ct)) =>
            /\ wk[w].pc = "send" /\ wk[w].result.Status = "failed"
            /\ ~wk[w].wrote /\ ~tmpf[w].exists

\* what each of the six strategies yields on its own, in the order of the code
Yields(m, u) ==
    <<Strategy1(m, u), Strategy2(m, u), Strategy3(m, u),
      Strategy4(m, u), Strategy5(m, u), Strategy6(m, u)>>
Yielding(m, u) == {k \in 1..6 : Yields(m, u)[k] # <<>>}
StrategyAt(pc) ==
    CASE pc = "s1" -> 1 [] pc = "s2" -> 2 [] pc = "s3" -> 3
      [] pc = "s4" -> 4 [] pc = "s5" -> 5 [] pc = "s6" -> 6 [] OTHER -> 0

\* C12: the strategies are applied in the order 1..6; a strategy is reached
\* only when every earlier one yielded nothing; the value returned is what the
\* lowest-numbered yielding strategy yields, and it is empty only when none
\* of the six yields
C12_StrategyOrder ==
    LET hit == Yielding(ex.m, ex.u) IN
    /\ StrategyAt(ex.pc) > 0 =>
          /\ \A k \in hit : k >= StrategyAt(ex.pc)
          /\ ex.pdfURL = <<>> /\ ex.downloadURL = <<>>
    /\ (ex.pc = "done" /\ ~ParseErr(ex.u)) =>
          ex.ret = IF hit = {} THEN <<>> ELSE Yields(ex.m, ex.u)[MinOf(hit)]

\* strategy 5 and strategy 6 yield different links and no earlier strategy
\* yields: the link of strategy 5 was returned
C12_Witness ==
    /\ ex.pc = "done" /\ ex.ret # <<>>
    /\ Yielding(ex.m, ex.u) = {5, 6}
    /\ Strategy5(ex.m, ex.u) # Strategy6(ex.m, ex.u)
    /\ ex.ret = Strategy5(ex.m, ex.u)

\* the anchors of the page that lie in a download container, and those of
\* them whose resolved link holds /download/
InContainer(m) == {i \in Sel(m, "a") : InDownload(m, i)}
ToDownload(m, u) == {i \in InContainer(m) : Contains(resolveURL(u, m[i].ref), "/download/")}
Usable(m, u) == {i \in InContainer(m) : resolveURL(u, m[i].ref) # <<>>}

Marked(m, marker) == \E i \in 1..Len(m) : \E k \in 1..Len(m[i].txt) : ToLower(<<m[i].txt[k]>>) = <<marker>>

\* the title of at most 50 characters, with an ellipsis when it was longer
Truncated(title) ==
    IF Len(title) > 50 THEN SubSeq(title, 1, 50) \o <<"...">> ELSE title

\* the marker precedence of the reason, with rest for a page without marker
ReasonOf(m, rest) ==
    IF Marked(m, "article is not available") \/ Marked(m, "not available through sci-hub")
    THEN <<"article not available on Sci-Hub">>
    ELSE IF Marked(m, "captcha") THEN <<"no PDF URL", "(captcha)">>
    ELSE IF Marked(m, "not found") \/ Marked(m, "404") THEN <<"no PDF URL", "(page not found)">>
    ELSE rest

\* C14: the reason of a failed extraction follows the precedence unavailable,
\* captcha, not found or 404, then the title truncated to 50 characters, then
\* the generic reason
C14_ReasonPrecedence ==
    ex.pc = "classified" =>
        ex.ret = ReasonOf(ex.m,
                    IF TitleOf(ex.m) # <<>>
                    THEN <<"no PDF URL", "(title:">> \o Truncated(TitleOf(ex.m))
                    ELSE <<"no PDF URL">>)

\* the page was fetched and read, and no strategy found a link in it
ExtractFailed(w) ==
    /\ wk[w].stage = "page" /\ wk[w].pc = "send"
    /\ wk[w].log # <<>> /\ wk[w].log[Len(wk[w].log)] = StatusOK
    /\ wk[w].enc = "gzip" => wk[w].gzok
    /\ wk[w].readok
    /\ extractPDFURL(wk[w].markup, wk[w].url) = <<>>

\* the debug file of the job of worker w, named by the sanitized identifier
DebugOf(w) == debug[ReplaceAll(ReplaceAll(wk[w].doi, "/", "_"), ":", "_")]

\* the step that finds no link composes the "failed" result and has written
\* the raw markup to the debug file of the job
C15_Saved ==
    \A w \in Workers :
        (wk[w].pc = "read" /\ ExtractFailed(w)') =>
            /\ wk'[w].result.Status = "failed"
            /\ wk'[w].result.Error = ExtractError(wk[w].markup)
            /\ DebugOf(w)'.exists /\ DebugOf(w)'.job = wk[w].job
            /\ DebugOf(w)'.content = wk[w].markup

\* no other step changes a debug file, and that step changes no other file
C15_OnlyThen ==
    debug' # debug =>
        \E w \in Workers :
            /\ wk[w].pc = "read" /\ ExtractFailed(w)'
            /\ \A n \in DebugNames : debug'[n] # debug[n] => debug'[n] = DebugOf(w)'
            /\ final' = final /\ tmpf' = tmpf

InProcess == {j \in JobIds : hist.taken[j] > hist.sent[j]}
BusyWorkers == {w \in Workers : Busy(w)}

\* C16 as stated: in every state at most W jobs are being processed, and
\* when more than W jobs are queued all W workers are busy
C16_AllBusy ==
    /\ Cardinality(InProcess) <= W
    /\ Len(jobs) > W => BusyWorkers = Workers

\* C16 amended: exactly W workers are started; at most W jobs are being
\* processed, one per busy worker; a worker that is not processing a job
\* waits at the queue and has not left it while a job is queued or still to
\* be enqueued
C16_WorkersServeQueue ==
    /\ Cardinality(InProcess) <= W
    /\ Cardinality(InProcess) = Cardinality(BusyWorkers)
    /\ \A w \in BusyWorkers : wk[w].job \in InProcess
    /\ mpc \in {"collect", "returned"} =>
          /\ Cardinality({w \in Workers : wk[w].pc # "unborn"}) = W
          /\ \A w \in Workers \ BusyWorkers :
                /\ wk[w].pc \in {"recv", "exited"}
                /\ wk[w].pc = "exited" => (jobs = <<>> /\ jobsClosed)
    /\ mpc \in {"call", "error"} /\ run = 1 => \A w \in Workers : wk[w].pc = "unborn"

\* two workers, each processing one of two jobs
C16_Witness ==
    /\ W = 2 /\ BusyWorkers = Workers
    /\ Cardinality(InProcess) = 2

\* the job a step takes from the queue is the first of the list not yet taken
C17_TakesNext ==
    \A j \in JobIds :
        hist.taken'[j] > hist.taken[j] => \A i \in 1..(j - 1) : hist.taken[i] > 0

\* C17: jobs leave the queue in the order of the input list: a job is
\* dequeued only after every job before it in the list was dequeued
C17_FifoDequeue == [][C17_TakesNext]_vars

\* both jobs were taken, and the second of the list completed first
C17_Witness ==
    /\ Len(urls) = 2 /\ hist.taken = <<1, 1>>
    /\ hist.order = <<2, 1>>

\* the producer has a job to send
Producing == prod \in JobIds

\* C18: the queue has room for every job, so the producer's send is never
\* blocked, whatever the workers do; the queue is closed after the last send,
\* once, and nothing is sent on it afterwards
C18_Room ==
    /\ Capacity = Len(urls)
    /\ Len(jobs) <= Capacity
    /\ Producing => (Len(jobs) < Capacity /\ ~jobsClosed /\ ENABLED Produce)
    /\ jobsClosed => prod = Len(urls) + 1

C18_ClosedOnce ==
    /\ jobsClosed => (jobsClosed' /\ prod' = prod)
    /\ jobsClosed => Len(jobs') <= Len(jobs)
    /\ jobsClosed' # jobsClosed => (prod = Len(urls) + 1 /\ jobs' = jobs)

C18_ProducerNeverBlocks == []C18_Room /\ [][C18_ClosedOnce]_vars

\* no worker was started, and both jobs were enqueued and the queue closed
C18_Witness ==
    /\ W = 0 /\ Len(urls) = 2
    /\ Len(jobs) = 2 /\ jobsClosed

\* the counters, the byte total, the duration lists and the failure list
Tallies(st) ==
    <<st.Success, st.Skip, st.Failed, st.TotalSize, st.AllTimes, st.SuccessTime, st.Errors>>

\* a step of the collecting loop: it consumes the oldest result, and no
\* worker moves in it
C19_CollectStep ==
    /\ mpc = "collect" /\ mpc' = "collect"
    /\ results # <<>> /\ results' = Tail(results)
    /\ hist.collected'[Head(results).job] = hist.collected[Head(results).job] + 1
    /\ wk' = wk

\* between start and return a step changes the tallies only if it is a step
\* of the collecting loop, and a step of a worker changes nothing of the
\* statistics
C19_OnlyCollector ==
    /\ (mpc = "collect" /\ Tallies(stats)' # Tallies(stats)) => C19_CollectStep
    /\ (mpc = "collect" /\ wk' # wk) => stats' = stats

\* C19: between the start of the run and the return, the statistics are
\* modified only by the collecting loop, one result at a time, and never by
\* a worker
C19_SingleWriter == [][C19_OnlyCollector]_vars

\* the collector has counted a result while a worker is in the middle of a job
C19_Witness ==
    /\ mpc = "collect"
    /\ stats.Success + stats.Skip + stats.Failed = 1
    /\ \E w \in Workers : wk[w].pc \in {"page", "pdf", "copy"}

\* C20: when the output directory cannot be created, DownloadPDFs returns an
\* error and no statistics; no job was enqueued, no worker started, no
\* request issued, no file written
C20_MkdirAborts ==
    mpc = "error" =>
        /\ stats = NilStats
        /\ prod = 0 /\ jobs = <<>> /\ ~jobsClosed /\ results = <<>>
        /\ \A w \in Workers : wk[w].pc = "unborn" /\ wk[w].log = <<>> /\ wk[w].stage = ""
        /\ \A j \in JobIds : hist.taken[j] = 0
        /\ dir = "absent" /\ final = EmptyDir
        /\ \A n \in DebugNames : ~debug[n].exists

\* the call with two urls and two workers returned the error
C20_Witness == mpc = "error" /\ Len(urls) = 2 /\ W = 2

\* DownloadPDFs has returned the statistics and has left nothing behind: the
\* producer has sent every job and closed the queue, every worker has exited,
\* the result stream is closed and drained
Finished ==
    /\ mpc = "returned"
    /\ prod = Len(urls) + 1 /\ jobsClosed /\ jobs = <<>>
    /\ \A w \in Workers : wk[w].pc = "exited"
    /\ resultsClosed /\ results = <<>>

\* C21: for every job list, the empty one included, and every W >= 1, a call
\* of DownloadPDFs whose network calls all return eventually returns, with
\* every worker exited, the result stream closed and the collector finished
\* (or returns the error of the directory creation)
C21_Returns == <>(W >= 1 /\ (mpc = "error" \/ Finished))

\* the call with two jobs and one worker has returned, after a failure and a
\* success
C21_Witness ==
    /\ Finished /\ W = 1 /\ Len(urls) = 2
    /\ stats.Failed = 1 /\ stats.Success = 1

\* the answers after which a stage asks again
Retryable(stage) ==
    IF stage = "page" THEN {TransportErr, StatusForbidden, StatusNotFound}
    ELSE {TransportErr, StatusForbidden}

\* the job failed in a retry loop: on the answer to a request
RequestFailed(me) ==
    /\ me.pc = "send" /\ me.result.Status = "failed"
    /\ Head(me.result.Error) \in {"page request", "PDF download"}
    /\ me.result.Error # <<"PDF download", "HTML not PDF">>

\* C22: a stage issues at most 3 requests, whatever mix of transport errors,
\* 403 answers and (for the page) 404 answers it gets; only such answers are
\* followed by another request, and a 200 answer to the first, second or third
\* request ends the loop and lets the job go on (to the reading of the page,
\* to the Content-Type test of the payload)
C22_AttemptsCapped ==
    \A w \in Workers :
        LET me == wk[w]
            n == Len(me.log)
        IN  /\ n <= 3
            /\ \A i \in 1..(n - 1) : me.log[i] \in Retryable(me.stage)
            /\ me.pc \in {"page", "pdf"} =>
                    /\ me.attempt = n /\ n < 3
                    /\ \A i \in 1..n : me.log[i] \in Retryable(me.stage)
            /\ (n > 0 /\ me.log[n] = StatusOK) =>
                    me.pc \notin {"page", "pdf"} /\ ~RequestFailed(me)
            /\ (me.pc = "send" /\ n > 0 /\ me.log[n] \in Retryable(me.stage)) =>
                    n = 3 /\ RequestFailed(me)
            /\ me.pc \in {"mktemp", "copy", "validate", "rename"} =>
                    me.resp.status = StatusOK

\* the third page request, after a transport error and a 404, was answered 200
\* and the job reads the page
C22_Witness ==
    \E w \in Workers :
        /\ wk[w].pc = "read"
        /\ wk[w].log = <<TransportErr, StatusNotFound, StatusOK>>

\* worker w delivers the outcome of its job in this step
Delivers(w) == wk[w].pc = "send" /\ wk'[w].pc = "recv" /\ Len(results') = Len(results) + 1

\* C23: the Duration of an Outcome is the time from the enqueueing of its job
\* to its completion: it is at least the time the worker spent on the job, and
\* it is the time the job waited in the queue plus that time
C23_DurationFromEnqueue ==
    [][\A w \in Workers :
        Delivers(w) =>
            LET j == wk[w].job
                d == results'[Len(results')].Duration
                waited == hist.got[j] - hist.enq[j]
                worked == now - hist.got[j]
            IN  /\ d = now - hist.enq[j]
                /\ waited >= 0 /\ worked >= 0
                /\ d >= worked
                /\ d = waited + worked]_vars

\* with one worker the second job waited in the queue while the first was
\* done, and its Duration holds that wait and its own two pacing sleeps
C23_Witness ==
    /\ W = 1
    /\ \E i \in 1..Len(results) :
          /\ results[i].job = 2 /\ results[i].Status = "success"
          /\ hist.got[2] - hist.enq[2] >= PaceMin + PdfPaceMin
          /\ results[i].Duration >= 2 * (PaceMin + PdfPaceMin)

\* worker w issues a request in this step (a payload URL that does not parse
\* fails before the request)
Requests(w) ==
    /\ wk[w].pc \in {"page", "pdf"} /\ wk'[w] # wk[w]
    /\ ~(wk[w].pc = "pdf" /\ ParseErr(wk[w].pdfURL))

\* a job in the page stage has slept once, a job in the payload stage twice;
\* a job that ends without having slept was skipped or has a URL that does not
\* parse, and has issued no request
C24_SleptOnce ==
    \A w \in Workers :
        /\ wk[w].stage = "page" => wk[w].sleeps = 1
        /\ wk[w].stage \in {"pdf", "file"} => wk[w].sleeps = 2
        /\ (wk[w].pc = "send" /\ wk[w].sleeps = 0) =>
                /\ wk[w].result.Status = "skip" \/ ParseErr(wk[w].url)
                /\ wk[w].log = <<>>

\* the first request of a stage comes when the pacing sleep of the stage, of
\* a duration within the range, has elapsed
C24_AfterSleep ==
    \A w \in Workers :
        Requests(w) =>
            /\ now >= wk[w].wake
            /\ (wk[w].pc = "page" /\ wk[w].attempt = 0) =>
                    /\ wk[w].nap >= 500 /\ wk[w].nap <= 2000
                    /\ wk[w].wake - wk[w].nap >= hist.got[wk[w].job]
            /\ (wk[w].pc = "pdf" /\ wk[w].attempt = 0) =>
                    wk[w].nap >= 300 /\ wk[w].nap <= 1000

C25_BackoffGrows ==
    [][\A w \in Workers :
        Requests(w) =>
            LET n == wk[w].attempt + 1 IN
            IF wk'[w].pc = wk[w].pc
            THEN /\ n \in {1, 2} /\ wk'[w].attempt = n
                 /\ wk'[w].log[n] \in Retryable(wk[w].stage)
                 /\ wk'[w].nap >= 2000 * n /\ wk'[w].nap < 2000 * n + 2000
                 /\ wk'[w].wake = now + wk'[w].nap
                 /\ wk'[w].backoffs = wk[w].backoffs + 1
            ELSE /\ wk'[w].nap = wk[w].nap /\ wk'[w].wake = wk[w].wake
                 /\ wk'[w].backoffs \in {0, wk[w].backoffs}
                 /\ n = 3 => wk'[w].pc \in {"send", "read", "mktemp"}]_vars

\* after a 403 and a timeout the job waits the longest second wait, 5999 ms,
\* before its third page request
C25_Witness ==
    \E w \in Workers :
        /\ wk[w].pc = "page" /\ wk[w].attempt = 2
        /\ wk[w].log = <<StatusForbidden, TransportErr>>
        /\ wk[w].nap = 5999 /\ wk[w].wake = now + 5999

\* the identifier with every '/' and ':' replaced by '_'
Sanitized(id) == [i \in 1..Len(id) |-> IF id[i] \in {"/", ":"} THEN "_" ELSE id[i]]

\* the target https://sci-hub.se/10.1000/xyz123
Example == <<"/", "1", "0", ".", "1", "0", "0", "0", "/", "x", "y", "z", "1", "2", "3">>

\* the output filename of a job is its sanitized identifier and ".pdf"
C26_Filename ==
    /\ PdfFilename(DoiOf(Example)) =
          <<"1", "0", ".", "1", "0", "0", "0", "_", "x", "y", "z", "1", "2", "3", ".pdf">>
    /\ \A w \in Workers :
          (wk[w].job # 0 /\ ~ParseErr(wk[w].url)) =>
              /\ wk[w].doi = TrimPrefix(UrlPath(wk[w].url), "/")
              /\ wk[w].fname = Sanitized(wk[w].doi) \o <<".pdf">>
              /\ wk[w].result.Filename \in {<<>>, wk[w].fname}
              /\ (wk[w].pc = "send" /\ wk[w].result.Status = "success") =>
                      final[wk[w].fname].exists /\ ~tmpf[w].exists

\* the step in which a job succeeds puts one file into the directory, under
\* the job's filename and of the size the job reports, and leaves no other
C26_OneFile ==
    \A w \in Workers :
        (wk[w].result.Status # "success" /\ wk'[w].result.Status = "success") =>
            /\ \A n \in FileNames : n # wk[w].fname => final'[n] = final[n]
            /\ final'[wk[w].fname].exists
            /\ Len(final'[wk[w].fname].content) = wk'[w].result.Size
            /\ wk'[w].result.Filename = wk[w].fname
            /\ \A v \in Workers : v # w => tmpf'[v] = tmpf[v]
            /\ ~tmpf'[w].exists
            /\ debug' = debug

\* C26: the output filename is the identifier (the path of the target URL
\* without its leading slash) with every '/' and ':' replaced by '_', and
\* ".pdf": 10.1000/xyz123 gives 10.1000_xyz123.pdf; a job that succeeds
\* leaves exactly one file, under that name in the output directory, of the
\* size it reports
C26_OutputFile == []C26_Filename /\ [][C26_OneFile]_vars

\* the job for x:y has succeeded and x_y.pdf is in the directory
C26_Witness ==
    \E w \in Workers :
        /\ wk[w].url = UrlXcY /\ wk[w].result.Status = "success"
        /\ wk[w].fname = <<"x", "_", "y", ".pdf">>
        /\ final[wk[w].fname].exists /\ Len(final[wk[w].fname].content) = wk[w].result.Size

\* an earlier call on this directory found the document of job j unavailable:
\* the job failed, and the page that call saved says so
Unavailable(j) ==
    /\ run > 1 /\ prev[j] = "failed" /\ ~ParseErr(urls[j])
    /\ LET f == debug[SafeFilename(DoiOf(urls[j]))] IN
         /\ f.exists /\ f.job = 0
         /\ ExtractError(f.content) = <<"article not available on Sci-Hub">>

\* C27: a DOI that an earlier run found to be unavailable on Sci-Hub is
\* skipped by a later run, which issues no request for it
C27_UnavailableSkipped ==
    \A w \in Workers :
        (wk[w].job # 0 /\ Unavailable(wk[w].job)) =>
            /\ wk[w].log = <<>>
            /\ wk[w].pc = "send" => wk[w].result.Status = "skip"

\* ------------------------------------------------------------ scripts/harvest.sh
\* The script starts the program once per round, on the same archive and the
\* same output directory, and reads the statistics the program prints.  Rates
\* and the threshold are in hundredths.

\* cmd/main.go 107-118: the number of urls a start of the program works on
BatchOf(h) == IF h.BATCH_SIZE > 0 /\ h.BATCH_SIZE < h.dois THEN h.BATCH_SIZE ELSE h.dois

\* What a start of the program prints (printDownloadStats): the counts of the
\* jobs of the batch, which ExtractDOIs hands over in the order of a Go map,
\* any order.  A job is skipped when its PDF is there, else it succeeds or
\* fails.  A start that ends before the statistics (main.go 58-142, os.Exit(1))
\* prints none of the three lines and the script's arithmetic reads 0 for
\* each.  No line of the program holds the text the script takes for "every
\* DOI is in the cache".
Outputs(h) ==
    LET total == BatchOf(h)
        rest == h.dois - h.have
        lo == IF total > rest THEN total - rest ELSE 0
        hi == IF total < h.have THEN total ELSE h.have
    IN  {[SUCCESS |-> c[2], FAILED |-> total - c[1] - c[2], SKIPPED |-> c[1], cached |-> FALSE] :
            c \in {d \in (lo..hi) \X (0..total) : d[2] <= total - d[1]}}
        \cup {[SUCCESS |-> 0, FAILED |-> 0, SKIPPED |-> 0, cached |-> FALSE]}

\* ERROR_RATE=$(echo "scale=2; $FAILED / $PROCESSED" | bc), "0" when nothing
\* was processed: bc cuts the quotient to two decimals
ErrorRate(failed, processed) == IF processed > 0 THEN (failed * 100) \div processed ELSE 0

\* harvest.sh 299: ERROR_RATE >= ERROR_THRESHOLD and SUCCESS < MIN_SUCCESS
IsBadRound(success, failed, threshold, minSuccess) ==
    ErrorRate(failed, success + failed) >= threshold /\ success < minSuccess

\* a counter that a normal round does not reset
StreakKept(streak, bad) == IF bad THEN streak + 1 ELSE streak

\* harvest.sh 301, 305: CONSECUTIVE_BAD_ROUNDS
Streak(streak, bad) == IF bad THEN streak + 1 ELSE 0

\* a counter that is only compared with MAX_ROUNDS: counted up to one more
\* than the greatest MAX_ROUNDS; past it hv.odd, the parity of ROUND, still
\* tells one turn of the loop from the next
UpTo(n) == IF n <= MaxRounds THEN n + 1 ELSE n

\* the script is started: its options and the state of archive and directory
InitHarvest ==
    /\ Boot(<<>>, 0, EmptyDir, "full")
    /\ ex = NoExtract
    /\ cli = NoMain
    /\ hv \in {[NoHarvest EXCEPT !.pc = "loop", !.MAX_ROUNDS = r, !.BATCH_SIZE = b,
                                  !.ERROR_THRESHOLD = e, !.MIN_SUCCESS = s,
                                  !.dois = c[1], !.have = c[2]] :
                 r \in 0..MaxRounds, b \in {2, 30}, e \in {50, 80}, s \in {1, 2},
                 c \in {d \in (0..MaxDois) \X (0..MaxDois) : d[2] <= d[1]}}

\* one turn of the main loop, harvest.sh 251-334
Round ==
    /\ hv.pc = "loop"
    /\ LET round == UpTo(hv.ROUND) IN
       IF hv.MAX_ROUNDS > 0 /\ round > hv.MAX_ROUNDS
       THEN hv' = [hv EXCEPT !.ROUND = round, !.odd = ~@, !.pc = "done", !.why = "rounds"]
       ELSE \E o \in Outputs(hv) :
              LET ran == [hv EXCEPT !.ROUND = round, !.odd = ~@, !.runs = UpTo(@),
                                    !.have = @ + o.SUCCESS,
                                    !.SUCCESS = o.SUCCESS, !.FAILED = o.FAILED,
                                    !.SKIPPED = o.SKIPPED]
                  bad == IsBadRound(o.SUCCESS, o.FAILED, hv.ERROR_THRESHOLD, hv.MIN_SUCCESS)
                  streak == Streak(hv.CONSECUTIVE_BAD_ROUNDS, bad)
                  seen == Append(hv.seen, bad)
              IN  hv' = IF o.cached
                        THEN [ran EXCEPT !.pc = "done", !.why = "cached"]
                        ELSE [ran EXCEPT !.IS_BAD_ROUND = bad,
                                         !.CONSECUTIVE_BAD_ROUNDS = streak,
                                         !.seen = IF Len(seen) > 3 THEN Tail(seen) ELSE seen,
                                         !.pc = IF streak >= 2 THEN "done" ELSE "loop",
                                         !.why = IF streak >= 2 THEN "anomaly" ELSE ""]
    /\ UNCHANGED <<urls, W, env, run, dir, mpc, prod, jobs, jobsClosed, results, resultsClosed,
                   wk, stats, final, tmpf, debug, now, startTime, hist, prev, ex, cli>>

\* the loop goes on while it can: the program returns and the wait between
\* two rounds ends
SpecHarvest == InitHarvest /\ [][Round]_vars /\ WF_vars(Round)

\* the claim's anomalous round: failed/(success+failed) is at least the
\* threshold and fewer than the minimum succeeded
Anomalous(h) ==
    /\ h.SUCCESS + h.FAILED > 0
    /\ h.FAILED * 100 >= h.ERROR_THRESHOLD * (h.SUCCESS + h.FAILED)
    /\ h.SUCCESS < h.MIN_SUCCESS

\* C28: the loop stops by itself after 2 consecutive anomalous rounds and
\* only then; a round that is not anomalous sets the count back to 0, so that
\* an anomalous round after a normal one does not stop the loop
C28_AutoStop ==
    [][(hv.pc = "loop" /\ hv'.why # "rounds" /\ hv' # hv) =>
          /\ hv'.IS_BAD_ROUND = Anomalous(hv')
          /\ hv'.CONSECUTIVE_BAD_ROUNDS =
                IF Anomalous(hv') THEN hv.CONSECUTIVE_BAD_ROUNDS + 1 ELSE 0
          /\ hv'.why = "anomaly" <=> (Anomalous(hv') /\ hv.IS_BAD_ROUND /\ hv.runs > 0)
          /\ hv'.pc = "done" <=> hv'.why = "anomaly"
          /\ hv'.seen[Len(hv'.seen)] = Anomalous(hv')]_vars

\* an anomalous round, a normal one and an anomalous one: the loop goes on
C28_Witness == hv.pc = "loop" /\ hv.seen = <<TRUE, FALSE, TRUE>> /\ hv.ERROR_THRESHOLD = 80

\* every DOI of the archive has its PDF and the round just run skipped all
\* its jobs
AllSkipped ==
    /\ hv.runs > 0 /\ hv.dois > 0 /\ hv.have = hv.dois
    /\ hv.SUCCESS = 0 /\ hv.FAILED = 0 /\ hv.SKIPPED = BatchOf(hv)

\* C29: without a round limit the loop ends once a round has found every DOI
\* downloaded; with MAX_ROUNDS = R > 0 the program is started at most R times
C29_StopsWhenDone ==
    /\ [](hv.MAX_ROUNDS > 0 => hv.runs <= hv.MAX_ROUNDS)
    /\ [](AllSkipped => <>(hv.pc = "done"))

\* worker w issues a page request in this step
PageRequest(w) == wk[w].pc = "page" /\ wk'[w] # wk[w]

\* worker w issues a payload request in this step (a payload URL that does
\* not parse fails before the request)
PayloadRequest(w) == wk[w].pc = "pdf" /\ ~ParseErr(wk[w].pdfURL) /\ wk'[w] # wk[w]

\* what a step of worker w keeps of the order and the number of requests
C30_Step(w) ==
    LET a == wk[w]
        b == wk'[w]
    IN  \* a request is the only step that records an answer, and it is the
        \* 1st, 2nd or 3rd of its stage
        /\ (PageRequest(w) \/ PayloadRequest(w)) =>
               /\ Len(a.log) < 3 /\ a.attempt = Len(a.log)
               /\ \/ b.log # <<>> /\ b.log = Append(a.log, b.log[Len(b.log)])
                  \/ PayloadRequest(w) /\ b.stage = "file" /\ b.resp.status = StatusOK
        /\ ~(PageRequest(w) \/ PayloadRequest(w)) =>
               \/ b.log = a.log /\ b.attempt = a.attempt
               \/ b.log = <<>> /\ b.attempt = 0 /\ b.stage # a.stage
        \* the payload loop is entered once, from a page that was answered
        \* with 200 and in which a link was found
        /\ (b.stage = "pdf" /\ a.stage # "pdf") =>
               /\ a.stage = "page" /\ a.pc = "read" /\ b.job = a.job
               /\ a.log # <<>> /\ a.log[Len(a.log)] = StatusOK
               /\ b.pdfURL = extractPDFURL(a.markup, a.url) /\ b.pdfURL # <<>>
        \* the page loop is entered only at the start of a job
        /\ (b.stage = "page" /\ a.stage # "page") => a.stage = "" /\ a.pc = "stat"
        /\ (b.job # a.job /\ b.job # 0) => a.pc = "recv" /\ a.stage = "" /\ a.log = <<>>
        /\ a.stage \in {"pdf", "file"} => b.stage \in {a.stage, "file", ""} /\ b.pc # "page"
        /\ a.stage = "file" => b.stage \in {"file", ""} /\ b.pc # "pdf"

\* the stages of a job and the requests they hold
C30_Stages ==
    \A w \in Workers :
        /\ wk[w].pc = "page" => wk[w].stage = "page"
        /\ wk[w].pc = "pdf" => wk[w].stage = "pdf" /\ wk[w].pdfURL # <<>>
        /\ wk[w].stage \in {"", "file"} => wk[w].log = <<>>
        /\ Len(wk[w].log) <= 3

\* C30: within a job the payload request is issued only after a page request
\* was answered with 200 and the extraction gave a URL, no page request
\* follows a payload request, and the job issues at most 3 page requests, at
\* most 3 payload requests and no other request
C30_RequestOrder == []C30_Stages /\ [][\A w \in Workers : C30_Step(w)]_vars

\* after a page answered with 200 a job is at its 3rd payload request
C30_Witness ==
    \E w \in Workers :
        /\ wk[w].pc = "pdf" /\ wk[w].attempt = 2 /\ wk[w].backoffs = 2
        /\ wk[w].log = <<TransportErr, StatusForbidden>>
        /\ wk[w].sleeps = 2

\* the list holds the same identifier twice
Duplicate ==
    /\ Len(urls) = 2 /\ ~ParseErr(urls[1]) /\ ~ParseErr(urls[2])
    /\ DoiOf(urls[1]) = DoiOf(urls[2])

\* C31: with one worker the two jobs of a duplicated identifier never both
\* report success, and the second reports skip whenever the first reported
\* success (with two workers both can report success, see the witness)
C31_OneWorkerSkipsSecond ==
    (Duplicate /\ W = 1) =>
        /\ ~(hist.out[1] = "success" /\ hist.out[2] = "success")
        /\ (hist.out[1] = "success" /\ hist.out[2] # "") => hist.out[2] = "skip"
        /\ \A i \in 1..Len(results) :
               (results[i].job = 2 /\ results[i].Status # "skip") =>
                   \A k \in 1..Len(results) : results[k].job = 1 => results[k].Status # "success"

\* two workers: both jobs of the duplicated identifier were past the skip
\* check before either renamed its file, both asked for page and payload, and
\* both reported success for the one path
C31_Witness ==
    /\ Duplicate /\ W = 2 /\ mpc = "returned"
    /\ hist.out[1] = "success" /\ hist.out[2] = "success"
    /\ stats.Success = 2 /\ stats.Skip = 0
    /\ final[PdfFilename(DoiOf(urls[1]))].exists

\* cmd/main.go 98-103: url = "https://sci-hub.se" + "/" + doi, so the
\* identifier a target URL was built from is what follows the first slash
IdentifierOf(u) == TrimPrefix(u, "/")

\* C32: every Outcome, and every failure record built from it, carries the
\* identifier of its job's target URL, also when the job fails at its first
\* step
C32_OutcomeCarriesIdentifier ==
    /\ \A i \in 1..Len(results) : results[i].DOI = IdentifierOf(urls[results[i].job])
    /\ \A w \in Workers :
           wk[w].pc = "send" => wk[w].result.DOI = IdentifierOf(urls[wk[w].job])
    /\ \A i \in 1..Len(stats.Errors) :
           \E j \in 1..Len(urls) :
               /\ hist.out[j] = "failed"
               /\ stats.Errors[i].DOI = IdentifierOf(urls[j])

\* the markup read as text, a comment's tags counted like the others
Raw(m) == [i \in 1..Len(m) |-> [m[i] EXCEPT !.hid = FALSE]]

\* C33: when the download-container pattern of strategy 5 gives the result,
\* the result is the link of an anchor that lies inside a container classed
\* "download" (in the text of the markup, comments included), never of an
\* anchor that only comes later in the markup
C33_PatternInsideContainer ==
    [][(ex.pc = "s5" /\ ex'.pc = "done" /\ resolveURL(ex.u, DownloadPattern(ex.m)) # <<>>) =>
          \E j \in 1..Len(ex.m) :
              /\ ex.m[j].t = "a" /\ InDownload(Raw(ex.m), j)
              /\ ex'.ret = resolveURL(ex.u, ex.m[j].ref)]_vars

\* worker w is writing its temporary file or about to rename it to the final
\* path of its job
Writing(w) == wk[w].pc \in {"copy", "validate", "rename"}

\* C34: distinct identifiers have distinct output paths, so two workers write
\* or rename towards the same final path only when their jobs have the same
\* identifier
C34_DistinctPaths ==
    \A v, w \in Workers :
        (v # w /\ Writing(v) /\ Writing(w) /\ wk[v].fname = wk[w].fname) =>
            wk[v].doi = wk[w].doi

\* an Outcome as the claim describes it, but for the size of a skip
Consistent(r) ==
    /\ r.Status \in {"success", "skip", "failed"}
    /\ r.Status = "failed" => r.Error # <<>> /\ r.Size = 0
    /\ r.Status = "success" => r.Error = <<>> /\ r.Size > 0
    /\ r.Status = "skip" => r.Error = <<>>

\* the Outcomes in the stream and those about to be sent
C35_Made ==
    /\ \A i \in 1..Len(results) : Consistent(results[i])
    /\ \A w \in Workers : wk[w].pc = "send" => Consistent(wk[w].result)

\* the skip check reports the size of the file it found
C35_SkipSize ==
    \A w \in Workers :
        (wk'[w].pc = "send" /\ wk[w].pc # "send" /\ wk'[w].result.Status = "skip") =>
            /\ final[wk[w].fname].exists
            /\ wk'[w].result.Size = Len(final[wk[w].fname].content)

\* C35: every Outcome has one of the three statuses; a failed one has a reason
\* and size 0, a success has no reason and a size above 0, a skip has no
\* reason and the size of the file that was found
C35_OutcomeConsistent == []C35_Made /\ [][C35_SkipSize]_vars

\* a skipped and a failed Outcome were made: the skip of the file that was
\* there before, with its size
C35_Witness ==
    /\ Len(results) = 2
    /\ results[1].Status = "skip" /\ results[1].Size = Len(Junk)
    /\ results[2].Status = "failed" /\ results[2].Error # <<>>

\* the number of jobs whose Outcome was collected with the status s
Collected(s) == Cardinality({j \in 1..Len(urls) : hist.out[j] = s})

\* the statistics agree with each other and with the Outcomes collected
C36_Agree ==
    stats # NilStats =>
        /\ Len(stats.AllTimes) = stats.Success + stats.Skip + stats.Failed
        /\ Len(stats.AllTimes) <= stats.Total
        /\ Len(stats.SuccessTime) = stats.Success
        /\ Len(stats.Errors) = stats.Failed
        /\ stats.Success = Collected("success")
        /\ stats.Skip = Collected("skip")
        /\ stats.Failed = Collected("failed")
        /\ stats.Success = 0 => stats.TotalSize = 0

\* a step of the collector adds the size of a success and of nothing else,
\* and one record for a failure; no step lowers a counter
C36_Step ==
    /\ (mpc = "collect" /\ Len(results') < Len(results)) =>
          LET r == Head(results) IN
          /\ stats'.TotalSize = stats.TotalSize + (IF r.Status = "success" THEN r.Size ELSE 0)
          /\ r.Status = "failed" =>
                /\ Len(stats'.Errors) = Len(stats.Errors) + 1
                /\ stats'.Errors[Len(stats'.Errors)].DOI = r.DOI
                /\ stats'.Errors[Len(stats'.Errors)].Error = r.Error
    /\ stats'.Total >= stats.Total /\ stats'.Success >= stats.Success
    /\ stats'.Skip >= stats.Skip /\ stats'.Failed >= stats.Failed
    /\ stats'.TotalSize >= stats.TotalSize
    /\ Len(stats'.AllTimes) >= Len(stats.AllTimes)

\* C36: after every step of the collector the lists and counters agree
\* (AllTimes with Success + Skip + Failed, at most Total; SuccessTime with
\* Success; Errors with Failed, one record per failed job), TotalSize is the
\* sum of the sizes of the successes only, and no counter decreases
C36_StatsConsistent == []C36_Agree /\ [][C36_Step]_vars

\* a skip of a file of size 1 and a success were collected: the total is the
\* size of the success
C36_Witness ==
    /\ mpc = "returned" /\ stats.Skip = 1 /\ stats.Success = 1
    /\ stats.TotalSize = Len(PdfBody)
    /\ \E j \in 1..Len(urls) : hist.out[j] = "skip" /\ final[PdfFilename(DoiOf(urls[j]))].content = Junk

\* DownloadPDFs is called with a list that is not empty and no worker
NoWorker == W <= 0 /\ urls # <<>>

\* nothing was processed: no job taken from the channel, no Outcome made
Untouched ==
    /\ wk = <<>> /\ results = <<>>
    /\ \A j \in 1..Len(urls) : hist.taken[j] = 0 /\ hist.out[j] = ""
    /\ final = EmptyDir /\ \A n \in DebugNames : ~debug[n].exists

\* the call has returned statistics that count the urls and nothing else
ReturnedEmpty ==
    /\ mpc = "returned" /\ stats.Total = Len(urls)
    /\ stats.Success = 0 /\ stats.Skip = 0 /\ stats.Failed = 0
    /\ stats.AllTimes = <<>> /\ stats.Errors = <<>>

\* C37: called with a list that is not empty and W <= 0, DownloadPDFs does not
\* block: it returns statistics with Total = len(urls) and the other counters
\* 0 (or the error of os.MkdirAll), no job having been processed
C37_NoWorkerReturns ==
    /\ [](NoWorker => Untouched /\ (mpc = "returned" => ReturnedEmpty))
    /\ [](NoWorker => <>(mpc = "error" \/ ReturnedEmpty))

\* the call with a negative worker count and two urls has returned, both jobs
\* still in the channel
C37_Witness == W < 0 /\ Len(urls) = 2 /\ ReturnedEmpty /\ Len(jobs) = 2 /\ jobsClosed

\* C38: the result stream is closed only after every worker has exited; a
\* worker that has a result finds room in the stream, which is open; and the
\* collector sees the stream closed and empty only when no Outcome is still
\* to be sent
C38_CloseAfterWorkers ==
    /\ resultsClosed => \A w \in Workers : wk[w].pc = "exited"
    /\ \A w \in Workers :
           wk[w].pc = "send" => ~resultsClosed /\ Len(results) < Capacity /\ ENABLED Send(w)
    /\ Len(results) <= Capacity
    /\ mpc = "returned" =>
           /\ results = <<>> /\ resultsClosed
           /\ \A j \in 1..Len(urls) : hist.sent[j] = hist.taken[j] /\ hist.collected[j] = hist.sent[j]

\* both workers have sent and exited and the stream, full, is closed before
\* the collector has taken anything
C38_Witness ==
    /\ W = 2 /\ resultsClosed /\ Len(results) = 2 /\ Capacity = 2 /\ mpc = "collect"
    /\ stats.AllTimes = <<>>

\* a temporary file exists only between os.CreateTemp and the return of the
\* job that created it
C39_NoTempLeft ==
    \A w \in Workers :
        /\ tmpf[w].exists => tmpf[w].job = wk[w].job /\ tmpf[w].by = "pipeline"
        /\ wk[w].pc \notin {"copy", "validate", "rename", "cleanup"} => ~tmpf[w].exists

\* a file leaves the directory only as the temporary file of the job that
\* created it, renamed to the final path of that job or removed on its return
C39_OwnFileOnly ==
    /\ \A n \in FileNames : final[n].exists => final'[n].exists
    /\ \A n \in DebugNames : debug[n].exists => debug'[n].exists
    /\ \A w \in Workers :
           (tmpf[w].exists /\ ~tmpf'[w].exists) =>
               /\ tmpf[w].job = wk[w].job /\ wk'[w].job = wk[w].job
               /\ \/ /\ wk[w].pc = "rename" /\ wk'[w].result.Status = "success"
                     /\ final'[wk[w].fname].content = tmpf[w].content
                     /\ final'[wk[w].fname].job = wk[w].job
                  \/ wk[w].pc = "cleanup" /\ wk[w].result.Status = "failed"

DefaultWorkers == 3

\* the DOIs that the records of the archive can hold
DOIS == {IdentifierOf(u) : u \in URLS}

\* a function that returns the DOIs of all records as they come
ExtractDOIsRaw(all) == {all}

\* ExtractDOIs (check.go 107-136): the DOIs of all records go into a map and
\* the result is filled by ranging over the map, in any order
ExtractDOIs(all) ==
    LET unique == {all[i] : i \in 1..Len(all)} IN
    {s \in [1..Cardinality(unique) -> unique] :
        \A i, j \in 1..Cardinality(unique) : i # j => s[i] # s[j]}

\* the program is started on an archive with some flags
InitMain ==
    /\ Boot(<<>>, 0, EmptyDir, "full")
    /\ ex = NoExtract
    /\ hv = NoHarvest
    /\ cli \in {[NoMain EXCEPT !.pc = "extract", !.allDOIs = a,
                              !.budgetShort = f[1], !.budgetLong = f[2],
                              !.workersShort = f[3], !.workersLong = f[4]] :
                a \in UNION {[1..k -> DOIS] : k \in 0..MaxDois},
                f \in {0 - 1, 0, 2} \X {0, 1, 4} \X {0 - 1, 0, 2} \X {0, 4}}

\* main.go 87-105: the DOIs of the archive, and a URL for each
Extract ==
    /\ cli.pc = "extract"
    /\ \E d \in ExtractDOIs(cli.allDOIs) :
          cli' = [cli EXCEPT !.pc = "limit", !.dois = d,
                             !.urls = [i \in 1..Len(d) |-> <<"/">> \o d[i]]]
    /\ UNCHANGED <<urls, W, env, run, dir, mpc, prod, jobs, jobsClosed, results, resultsClosed,
                   wk, stats, final, tmpf, debug, now, startTime, hist, prev, ex, hv>>

\* main.go 107-128: the budget cuts the list, the worker count gets its
\* default; then core.DownloadPDFs(urls, absPdfDir, workers)
Prepare ==
    /\ cli.pc = "limit"
    /\ LET budget == IF cli.budgetShort > 0 THEN cli.budgetShort
                     ELSE IF cli.budgetLong > 0 THEN cli.budgetLong ELSE 0
           workers == IF cli.workersShort > 0 THEN cli.workersShort
                      ELSE IF cli.workersLong > 0 THEN cli.workersLong ELSE DefaultWorkers
       IN  cli' = [cli EXCEPT !.pc = "call", !.budget = budget, !.workers = workers,
                              !.urls = IF budget > 0 /\ budget < Len(@)
                                       THEN SubSeq(@, 1, budget) ELSE @]
    /\ UNCHANGED <<urls, W, env, run, dir, mpc, prod, jobs, jobsClosed, results, resultsClosed,
                   wk, stats, final, tmpf, debug, now, startTime, hist, prev, ex, hv>>

SpecMain == InitMain /\ [][Extract \/ Prepare]_vars

\* the number of different DOIs in the archive
N == Cardinality({cli.allDOIs[i] : i \in 1..Len(cli.allDOIs)})

\* the budget that was given, -b before --budget
Given == IF cli.budgetShort > 0 THEN cli.budgetShort ELSE cli.budgetLong

====
